---------------------------- MODULE Spec2Model ----------------------------
(***************************************************************************)
(* A model of the UDS client of src/src/uds.py: ISO-TP segmentation and     *)
(* reassembly over a CAN bus (UDSClient.send, UDSClient.receive,            *)
(* UDSClient.request, UDSClient.security_access) with the T_Data hooks of   *)
(* src/src/isotp_primitives.py.                                             *)
(*                                                                         *)
(* With it, the frame monitor of src/src/can_monitor.py (main's reconnect    *)
(* loop, monitor's receive loop with its passive reassembler, DTC decoder   *)
(* and transport queue), Transport.send of src/src/transport.py and the     *)
(* counters of src/src/metrics.py.                                          *)
(*                                                                         *)
(* A byte is a number in 0..255, a byte string a sequence of bytes, a CAN   *)
(* frame a record [id, data].  The bus is the environment: every recv       *)
(* returns None or one frame out of a finite set of frames a peer (or any   *)
(* other node) can put on the bus.  Time is counted in ticks.               *)
(***************************************************************************)
EXTENDS Integers, Sequences, FiniteSets, TLC

(***************************************************************************)
(* Bounds of the model.                                                     *)
(***************************************************************************)
\* the short request data lengths run over 0..MaxData (payload = service + data)
MaxData == 15
\* a long request: enough Consecutive Frames for the sequence number to wrap
LongData == 119
\* the timeout argument of send / receive / request, in ticks
Timeout == 2
\* the clock of an API call is followed for two timeouts
MaxElapsed == 2 * Timeout
\* the peer advertises block sizes 0..MaxBS in its flow-control frames
MaxBS == 2
\* the longest short message of the peer, and a long one: enough Consecutive
\* Frames for the sequence number to wrap
MaxTotal == 20
LongTotal == 120
\* First Frames the peer may send within one receive call
MaxFF == 2
\* Consecutive Frames shorter than a full frame the peer may send in one receive call
MaxShort == 1
\* recv calls of the monitor within one behaviour
MaxRecv == 4
\* the capacity of the transport queue (queue.Queue(maxsize=1000)), scaled down
QueueCap == 2
\* Transport's retries run over 1..MaxRetries
MaxRetries == 2
\* failures of main's reconnect loop within one behaviour: enough for the
\* delay to reach its cap and stay there
MaxFails == 7

(***************************************************************************)
(* Python values.                                                           *)
(***************************************************************************)
\* Python's None where an int is optional (address_extension, max_rx_size)
None == -1

Min(a, b) == IF a <= b THEN a ELSE b

\* bytes(n): n zero bytes (bytes of a negative count is empty)
Zeros(n) == [i \in 1..n |-> 0]

\* s[a:b] for 0 <= a: Python slicing clamps to the length of s
Slice(s, a, b) == SubSeq(s, a + 1, Min(b, Len(s)))

\* s[a:]
From(s, a) == SubSeq(s, a + 1, Len(s))

\* bytes(range(n))
Range(n) == [i \in 1..n |-> (i - 1) % 256]

\* the identifiers the client is constructed with, and another node's
REQ_ID == 2016
RESP_ID == 2024
OTHER_ID == RESP_ID + 1

\* the address extension of the client when it has one, and another one
AE == 153
OTHER_AE == AE - 1

Frame(id, data) == [id |-> id, data |-> data]

\* recv's None
NoFrame == Frame(None, <<>>)

(***************************************************************************)
(* The state.                                                               *)
(***************************************************************************)
VARIABLES
    \* UDSClient's fields
    address_extension, rx_block_size, rx_st_min, key_algo,
    \* what the caller asked for that UDSClient has no field for
    max_rx_size, paused,
    \* the API call in progress or last made, the position in it, how it ended
    op, pc, outcome, ret, granted,
    \* send's locals
    payload, offset, seq, sent_in_block, block_size, st_delay,
    \* receive's state dict
    state_expected, state_payload, state_next_seq, state_bs,
    \* time.monotonic() - start of the wait loop in progress, and the time since
    \* the API call in progress began (exact below MaxElapsed)
    waited, elapsed,
    \* security_access's arguments, and which of its two requests is running
    level, key, stage,
    \* the bus: the last value recv returned and how many frames had been
    \* transmitted by then, the frames bus.send transmitted during the exchange
    \* in progress
    lastRx, rxAt, sent,
    \* the T_Data hooks called during the call in progress
    calls,
    \* the other end of the bus, and what it did during the receive in progress
    peerMode, ffCount, shortCount, declared

VARIABLES
    \* how can_monitor.monitor is set up: the databases (db, fallback_dbs), the
    \* uds section of the configuration, print_raw, the serializer given with
    \* a transport, and the transport's retries
    db_mode, uds_mode, print_raw, serializer, retries,
    \* main's reconnect loop and monitor's receive loop: the position, the
    \* exception on its way out, main's delay, the time.sleep calls of main
    mpc, exc, delay, slept,
    \* metrics._metrics
    metrics,
    \* monitor's locals: uds_state, missing_ids
    uds_expected, uds_payload, missing_ids,
    \* the pass of the receive loop made last: what recv returned, whether the
    \* bus was in BUS_OFF, the frames given to bus.send, the log records
    \* written, the payload given to _process_uds_payload, how the frame was
    \* decoded; and the number of recv calls so far
    msg, bus_off, busSent, logged, dtc_payload, decoded, recvs,
    \* send_queue with its count of unfinished tasks, every record put on it
    \* and every record given to transport.send, in order
    send_queue, unfinished, enqueued, delivered,
    \* the worker thread and the Transport.send call it is in: the position,
    \* the payload, attempts, the attempts and sleeps made, how the call ended,
    \* the log records the worker wrote for the record it took last
    wpc, t_payload, attempts, t_trace, t_result, w_logged,
    \* _convert_to_pcode: the last two arguments and results
    code_in, code_out,
    \* the functions of metrics.py a user of the module called, in order
    m_ops,
    \* the threads that call the record functions of metrics.py: the counter a
    \* thread is updating ("idle" outside a call) and the value it has read
    thr

moncfg == <<db_mode, uds_mode, print_raw, serializer, retries>>
mainloc == <<mpc, exc, delay, slept>>
monloc == <<uds_expected, uds_payload, missing_ids>>
lastpass == <<msg, bus_off, busSent, logged, dtc_payload, decoded, recvs>>
queue == <<send_queue, unfinished, enqueued, delivered>>
worker == <<wpc, t_payload, attempts, t_trace, t_result, w_logged>>
pcode == <<code_in, code_out>>
mon == <<moncfg, mainloc, metrics, monloc, lastpass, queue, worker, pcode, m_ops, thr>>

cfg == <<address_extension, rx_block_size, rx_st_min, key_algo, max_rx_size, peerMode>>
txloc == <<offset, seq, sent_in_block, block_size, st_delay>>
rxst == <<state_expected, state_payload, state_next_seq, state_bs>>
sa == <<level, key, stage>>
peer == <<ffCount, shortCount, declared>>
client == <<cfg, paused, op, pc, outcome, ret, granted, payload, txloc, rxst, waited,
            elapsed, sa, lastRx, rxAt, sent, calls, peer>>
vars == <<client, mon>>

(***************************************************************************)
(* The T_Data hooks: a call of hook h with its arguments.                   *)
(***************************************************************************)
Hook(h, ok, e, p) == [h |-> h, ok |-> ok, e |-> e, p |-> p]

\* an exception leaves the call: nothing is returned
Raise(e, calls1) ==
    /\ pc' = "idle"
    /\ outcome' = e
    /\ calls' = calls1

\* send's locals are gone when send is left
NoLocals ==
    offset' = 0 /\ seq' = 0 /\ sent_in_block' = 0 /\ block_size' = 0 /\ st_delay' = 0

\* send's except clause: con(False, exc), then the exception is raised again
SendFailsMutNoCon(e, calls0) == Raise(e, calls0) /\ NoLocals
SendFails(e, calls0) == Raise(e, Append(calls0, Hook("con", FALSE, e, <<>>))) /\ NoLocals

\* send's two "con(True, None); return True": a plain send is over, request goes on
\* to receive
SendReturnsMutNoCon(o, calls0) ==
    /\ NoLocals
    /\ calls' = calls0
    /\ IF o = "send"
       THEN pc' = "idle" /\ outcome' = "ok"
       ELSE pc' = "recv_entry" /\ outcome' = "none"
SendReturns(o, calls0) ==
    /\ NoLocals
    /\ calls' = Append(calls0, Hook("con", TRUE, "", <<>>))
    /\ IF o = "send"
       THEN pc' = "idle" /\ outcome' = "ok"
       ELSE pc' = "recv_entry" /\ outcome' = "none"

(***************************************************************************)
(* The frames send builds.                                                  *)
(***************************************************************************)
SingleLimit == IF address_extension = None THEN 7 ELSE 6
FirstLen == IF address_extension = None THEN 6 ELSE 5
ChunkLen == IF address_extension = None THEN 7 ELSE 6

\* the address extension byte goes before the PCI byte
AddrMutNoAE(b) == b
Addr(b) == IF address_extension = None THEN b ELSE <<address_extension>> \o b

\* lines 100-110: the data of a Single Frame
SFDataMutPadFirst(p) == Addr(<<Len(p) % 16>>) \o Zeros(SingleLimit - Len(p)) \o p
SFData(p) == Addr(<<Len(p) % 16>>) \o p \o Zeros(SingleLimit - Len(p))

FFData(p) ==
    LET total_len == Len(p)
        pci_high == 16 + ((total_len \div 256) % 16)
        pci_low == total_len % 256
        first_payload == Slice(p, 0, FirstLen)
    IN  Addr(<<pci_high, pci_low>>) \o first_payload
            \o Zeros(8 - Len(Addr(<<pci_high, pci_low>>)) - Len(first_payload))

CFData(sq, chunk) == Addr(<<32 + (sq % 16)>>) \o chunk \o Zeros(ChunkLen - Len(chunk))

\* STmin byte to a delay, in units of 100 microseconds
calc_st_delay(byte) ==
    IF byte <= 127 THEN byte * 10
    ELSE IF 241 <= byte /\ byte <= 249 THEN byte - 240
    ELSE 0

(***************************************************************************)
(* The frames the bus can deliver while send waits for flow control.        *)
(***************************************************************************)
Pad8(b) == b \o Zeros(8 - Len(b))
StMins == IF peerMode = "ecu" THEN {10} ELSE {10, 245}
\* the peer addresses the client with the client's address extension
PeerAddr(b) == IF address_extension = None THEN b ELSE <<AE>> \o b
FcData(fs, bsz, st) == Pad8(PeerAddr(<<48 + fs, bsz, st>>))
FcBus ==
    {NoFrame}
    \cup {Frame(RESP_ID, FcData(0, b, st)) : b \in 0..MaxBS, st \in StMins}
    \cup {Frame(RESP_ID, FcData(fs, 0, 0)) : fs \in 1..3}
    \cup {Frame(OTHER_ID, FcData(0, 0, 0)),
          Frame(RESP_ID, Pad8(<<OTHER_AE, 48, 0, 0>>)),
          Frame(RESP_ID, Pad8(PeerAddr(<<2, 80, 3>>))),
          Frame(RESP_ID, PeerAddr(<<48>>)),
          Frame(RESP_ID, <<>>)}

\* lines 162 and 192: the flow status is OVERFLOW
FsOverflowMutNever(fs) == FALSE
FsOverflow(fs) == fs = 2

\* one pass of send's "wait for flow control" loop body on the frame recv returned
FcRead(f) ==
    IF f = NoFrame \/ f.id # RESP_ID THEN [kind |-> "continue"]
    ELSE IF address_extension # None /\ Len(f.data) = 0 THEN [kind |-> "IndexError"]
    ELSE IF address_extension # None /\ f.data[1] # address_extension
         THEN [kind |-> "continue"]
    ELSE LET data_fc == IF address_extension # None THEN From(f.data, 1) ELSE f.data
         IN  IF Len(data_fc) = 0 THEN [kind |-> "IndexError"]
             ELSE IF data_fc[1] \div 16 # 3 THEN [kind |-> "continue"]
             ELSE LET fs == data_fc[1] % 16
                  IN  IF FsOverflow(fs) THEN [kind |-> "overflow"]
                      ELSE IF fs = 0
                           THEN IF Len(data_fc) < 3 THEN [kind |-> "IndexError"]
                                ELSE [kind |-> "cts", bs |-> data_fc[2],
                                      st |-> calc_st_delay(data_fc[3])]
                      ELSE [kind |-> "continue"]

(***************************************************************************)
(* UDSClient.send.                                                          *)
(***************************************************************************)
\* send from its first line to its first recv, on behalf of call o, with the
\* logs as they are when it starts.  bus.send may raise.
SendEntry(o, p, sent0, calls0) ==
    /\ payload' = p
    /\ elapsed' = 0
    /\ \E io \in BOOLEAN :
        IF ~io
        THEN sent' = sent0 /\ waited' = 0 /\ SendFails("IOError", calls0)
        ELSE IF Len(p) <= SingleLimit
        THEN /\ sent' = Append(sent0, Frame(REQ_ID, SFData(p)))
             /\ waited' = 0
             /\ SendReturns(o, calls0)
        ELSE /\ sent' = Append(sent0, Frame(REQ_ID, FFData(p)))
             /\ waited' = 0
             /\ NoLocals
             /\ pc' = "fc_first" /\ outcome' = "none" /\ calls' = calls0

\* the CTS that ends the first wait: line 169-172; the one that ends a later wait: 195-198
AfterCts(first, r) ==
    /\ block_size' = r.bs
    /\ st_delay' = r.st
    /\ sent_in_block' = 0
    /\ IF first
       THEN seq' = 1 /\ offset' = FirstLen /\ pc' = "cf_loop"
       ELSE UNCHANGED <<seq, offset>> /\ pc' = "cf_emit"
    /\ UNCHANGED <<outcome, calls>>

\* lines 148-149, 178-179, 263-264: remaining <= 0
ExpiredMutNever(w) == FALSE
Expired(w) == Timeout - w <= 0

\* lines 148-151: time.monotonic() - start after a recv that returned a frame
\* d ticks after it was called, or nothing when remaining had passed
WaitedAfterMutRestart(none, d) == IF none THEN Timeout ELSE d
WaitedAfter(none, d) == IF none THEN Timeout ELSE waited + d

\* the clock of the call after t more ticks
ElapsedAfter(t) == Min(elapsed + t, MaxElapsed)

\* one pass of a flow-control wait loop
FcWait(first) ==
    /\ pc = IF first THEN "fc_first" ELSE "fc_block"
    /\ UNCHANGED <<mon, cfg, paused, op, ret, granted, payload, rxst, sa, sent, peer>>
    /\ IF Expired(waited)
       THEN /\ SendFails(IF first THEN "NoFlowControl" ELSE "FlowControlTimeout", calls)
            /\ UNCHANGED <<waited, elapsed, lastRx, rxAt>>
       ELSE \E f \in FcBus, d \in 0..1 :
            /\ f = NoFrame => d = 0
            /\ lastRx' = f
            /\ rxAt' = Len(sent)
            /\ waited' = WaitedAfter(f = NoFrame, d)
            /\ elapsed' = ElapsedAfter(WaitedAfter(f = NoFrame, d) - waited)
            /\ LET r == FcRead(f)
               IN  CASE r.kind = "continue" -> UNCHANGED <<txloc, pc, outcome, calls>>
                     [] r.kind = "IndexError" -> SendFails("IndexError", calls)
                     [] r.kind = "overflow" -> SendFails("FlowControlOverflow", calls)
                     [] r.kind = "cts" -> AfterCts(first, r)

FcWaitFirst == FcWait(TRUE)
FcWaitBlock == FcWait(FALSE)

\* the block test of line 174
BlockFullMutOff(bsz, n) == bsz # 0 /\ n > bsz
BlockFull(bsz, n) == bsz # 0 /\ n >= bsz

\* line 219: the sequence number of the next Consecutive Frame
SeqAfterMutSkipZero(sq) == IF sq = 15 THEN 1 ELSE sq + 1
SeqAfter(sq) == (sq + 1) % 16

\* lines 199-226: one Consecutive Frame; after the last one send returns
EmitCF ==
    LET chunk == Slice(payload, offset, offset + ChunkLen)
    IN  \E io \in BOOLEAN :
        IF ~io
        THEN SendFails("IOError", calls) /\ UNCHANGED <<sent, waited, elapsed>>
        ELSE /\ sent' = Append(sent, Frame(REQ_ID, CFData(seq, chunk)))
             /\ IF offset + Len(chunk) < Len(payload)
                THEN /\ offset' = offset + Len(chunk)
                     /\ seq' = SeqAfter(seq)
                     /\ sent_in_block' = sent_in_block + 1
                     /\ UNCHANGED <<block_size, st_delay>>
                     /\ pc' = "cf_loop"
                     /\ UNCHANGED <<outcome, calls, waited, elapsed>>
                ELSE SendReturns(op, calls) /\ waited' = 0 /\ UNCHANGED elapsed

\* the head of the "while offset < len(payload)" loop: wait for the next flow
\* control when the block is used up, else send the next Consecutive Frame
CfLoop ==
    /\ pc = "cf_loop"
    /\ offset < Len(payload)
    /\ UNCHANGED <<mon, cfg, paused, op, ret, granted, payload, rxst, sa, lastRx, rxAt, peer>>
    /\ IF BlockFull(block_size, sent_in_block)
       THEN /\ waited' = 0
            /\ pc' = "fc_block"
            /\ UNCHANGED <<txloc, sent, outcome, calls, elapsed>>
       ELSE EmitCF

\* line 199, reached from the flow-control wait of a used-up block
CfEmit ==
    /\ pc = "cf_emit"
    /\ UNCHANGED <<mon, cfg, paused, op, ret, granted, payload, rxst, sa, lastRx, rxAt, peer>>
    /\ EmitCF

(***************************************************************************)
(* The frames the bus can deliver during receive.  The peer's message       *)
(* number tag of n bytes is Msg(tag, n): the first one a positive reply to   *)
(* service 0x27 (0x67, 1, seed), the later ones bytes above 0x7F.  Its       *)
(* frames are padded with 0xCC.                                             *)
(***************************************************************************)
Max(a, b) == IF a >= b THEN a ELSE b
Msg(tag, n) ==
    [i \in 1..n |-> IF tag = 0 THEN (IF i = 1 THEN 103 ELSE (i - 1) % 128)
                               ELSE 128 + ((i - 1) % 128)]
PeerPad(b) == b \o [i \in 1..(8 - Len(b)) |-> 204]

\* the replies of an ECU that fit a Single Frame
SfReplies == {<<80, 3>>, <<103, 1, 170, 187>>, <<103, 2>>, <<103, 3, 1, 2, 3>>,
              <<127, 39, 53>>, <<>>}
\* the total lengths a peer's First Frame declares: less than the frame holds, one
\* Consecutive Frame (part of one, a full one), more of them
Totals == {3, 8, 10, 13, MaxTotal, LongTotal}

\* what the bus does at one recv of receive.  peerMode "any": any node sends
\* anything; "ecu": an ECU answers, other nodes talk; "mirror": the peer sends back
\* the data of the last frame the client transmitted.
RxChoices ==
    {[k |-> "none"], [k |-> "other_id"], [k |-> "other_ae"]}
    \cup (IF peerMode = "mirror"
          THEN {[k |-> "echo"] : x \in {1} \cap 1..Len(sent)}
          ELSE {[k |-> "sf", p |-> r] : r \in SfReplies}
               \cup {[k |-> "ff", total |-> t] :
                       t \in {u \in Totals : /\ ffCount < MaxFF
                                             /\ u = LongTotal => ffCount = 0
                                             /\ peerMode = "ecu" => u \in {8, 10}}}
               \cup {[k |-> "cf", sq |-> (state_next_seq + i) % 16, short |-> FALSE] :
                       i \in 0..1})
    \cup (IF peerMode = "any"
          THEN {[k |-> "fc"], [k |-> "empty"], [k |-> "ff_cut"]}
               \cup {[k |-> "cf", sq |-> state_next_seq, short |-> TRUE] :
                       x \in {1} \cap 1..(MaxShort - shortCount)}
          ELSE {})

\* the frame of a choice: the peer's Consecutive Frames go on where the
\* receiver's buffer ends
RxFrame(c) ==
    LET tag == Max(ffCount - 1, 0)
        k == Len(state_payload)
        m == Msg(tag, Max(declared, k))
    IN  CASE c.k = "none" -> NoFrame
          [] c.k = "other_id" -> Frame(OTHER_ID, PeerPad(PeerAddr(<<16, 10>> \o Msg(0, 5))))
          [] c.k = "other_ae" -> Frame(RESP_ID, PeerPad(<<OTHER_AE, 16, 10>> \o Msg(0, 5)))
          [] c.k = "fc" -> Frame(RESP_ID, FcData(0, 0, 0))
          [] c.k = "empty" -> Frame(RESP_ID, <<>>)
          [] c.k = "ff_cut" -> Frame(RESP_ID, PeerAddr(<<16>>))
          [] c.k = "echo" -> Frame(RESP_ID, sent[Len(sent)].data)
          [] c.k = "sf" -> Frame(RESP_ID, PeerPad(PeerAddr(<<Len(c.p)>> \o c.p)))
          [] c.k = "ff" ->
                Frame(RESP_ID, PeerPad(PeerAddr(<<16 + (c.total \div 256), c.total % 256>>
                    \o Slice(Msg(ffCount, c.total), 0, FirstLen))))
          [] c.k = "cf" /\ ~c.short ->
                Frame(RESP_ID, PeerPad(PeerAddr(<<32 + c.sq>> \o Slice(m, k, k + ChunkLen))))
          [] c.k = "cf" /\ c.short ->
                Frame(RESP_ID, PeerAddr(<<32 + c.sq>> \o Slice(m, k, k + 2)))

(***************************************************************************)
(* UDSClient.receive.                                                       *)
(***************************************************************************)
\* the flow-control frame of _send_fc
SendFcDataMutNoBs == Addr(<<48, 0, rx_st_min % 256>>) \o Zeros(8 - Len(Addr(<<48, 0, 0>>)))
SendFcData == Addr(<<48, rx_block_size % 256, rx_st_min % 256>>)
                \o Zeros(8 - Len(Addr(<<48, rx_block_size % 256, rx_st_min % 256>>)))

\* receive returns payload p to the call that made it
RecvReturns(p, calls1) ==
    /\ calls' = calls1
    /\ ret' = p
    /\ IF op = "security_access" /\ stage = 1
       THEN pc' = "sa_seed" /\ outcome' = "none" /\ granted' = FALSE
       ELSE /\ pc' = "idle"
            /\ outcome' = "ok"
            /\ granted' = (op = "security_access" /\ Slice(p, 0, 2) = <<103, level * 2>>)

\* the sequence number expected after sq
NextSeqMutNoWrap(sq) == sq + 1
NextSeq(sq) == (sq + 1) % 16

\* the bytes a Consecutive Frame adds: min(expected, 7 or 6)
TakeOf(exp) == Min(exp, IF address_extension = None THEN 7 ELSE 6)

\* line 283: the buffer after a First Frame with the data bytes d
FFBufferMutKeep(buf, d) == buf \o From(d, 2)
FFBuffer(buf, d) == From(d, 2)

\* the body of receive's loop on the frame f recv returned
RecvFrame(f) ==
    IF f = NoFrame \/ f.id # RESP_ID
    THEN UNCHANGED <<rxst, sent, calls, pc, outcome, ret, granted>>
    ELSE IF address_extension # None /\ Len(f.data) = 0
    THEN Raise("IndexError", calls) /\ UNCHANGED <<rxst, sent, ret, granted>>
    ELSE IF address_extension # None /\ f.data[1] # address_extension
    THEN UNCHANGED <<rxst, sent, calls, pc, outcome, ret, granted>>
    ELSE
    LET data == IF address_extension # None THEN From(f.data, 1) ELSE f.data
        frame_type == data[1] \div 16
    IN  IF Len(data) = 0
        THEN Raise("IndexError", calls) /\ UNCHANGED <<rxst, sent, ret, granted>>
        ELSE IF frame_type = 0
        THEN \* single frame
             LET length == data[1] % 16
                 p == Slice(data, 1, 1 + length)
             IN  /\ RecvReturns(p, Append(calls, Hook("ind", TRUE, "", p)))
                 /\ UNCHANGED <<rxst, sent>>
        ELSE IF frame_type = 1
        THEN \* first frame
             IF Len(data) < 2
             THEN Raise("IndexError", calls) /\ UNCHANGED <<rxst, sent, ret, granted>>
             ELSE LET total_len == (data[1] % 16) * 256 + data[2]
                  IN  /\ state_payload' = FFBuffer(state_payload, data)
                      /\ state_expected' = total_len - Len(From(data, 2))
                      /\ state_next_seq' = 1
                      /\ state_bs' = 0
                      /\ UNCHANGED <<ret, granted>>
                      /\ \E io \in BOOLEAN :
                            IF io
                            THEN /\ sent' = Append(sent, Frame(REQ_ID, SendFcData))
                                 /\ calls' = Append(calls, Hook("som_ind", TRUE, "", <<>>))
                                 /\ UNCHANGED <<pc, outcome>>
                            ELSE /\ Raise("IOError",
                                          Append(calls, Hook("som_ind", TRUE, "", <<>>)))
                                 /\ UNCHANGED sent
        ELSE IF frame_type = 2 /\ state_expected > 0
        THEN \* consecutive frame
             LET sq == data[1] % 16
                 take == TakeOf(state_expected)
                 buf == state_payload \o Slice(data, 1, 1 + take)
             IN  IF sq # state_next_seq
                 THEN /\ state_expected' = 0
                      /\ state_payload' = <<>>
                      /\ UNCHANGED <<state_next_seq, state_bs, sent, ret, granted>>
                      /\ Raise("SequenceMismatch", calls)
                 ELSE /\ state_next_seq' = NextSeq(state_next_seq)
                      /\ IF state_expected - take <= 0
                         THEN /\ state_payload' = <<>>
                              /\ state_expected' = 0
                              /\ state_bs' = state_bs + 1
                              /\ UNCHANGED sent
                              /\ RecvReturns(buf, Append(calls, Hook("ind", TRUE, "", buf)))
                         ELSE /\ state_payload' = buf
                              /\ state_expected' = state_expected - take
                              /\ UNCHANGED <<calls, ret, granted>>
                              /\ IF rx_block_size > 0 /\ state_bs + 1 >= rx_block_size
                                 THEN /\ state_bs' = 0
                                      /\ \E io \in BOOLEAN :
                                           IF io
                                           THEN /\ sent' = Append(sent,
                                                            Frame(REQ_ID, SendFcData))
                                                /\ UNCHANGED <<pc, outcome>>
                                           ELSE /\ pc' = "idle" /\ outcome' = "IOError"
                                                /\ UNCHANGED sent
                                 ELSE /\ state_bs' = state_bs + 1
                                      /\ UNCHANGED <<sent, pc, outcome>>
        ELSE \* any other frame: reset
             /\ state_expected' = 0
             /\ state_payload' = <<>>
             /\ UNCHANGED <<state_next_seq, state_bs, sent, calls, pc, outcome, ret, granted>>

\* what the peer has done after choice c
PeerAfter(c) ==
    /\ ffCount' = IF c.k = "ff" THEN ffCount + 1 ELSE ffCount
    /\ declared' = IF c.k = "ff" THEN c.total ELSE declared
    /\ shortCount' = IF c.k = "cf" /\ c.short THEN shortCount + 1 ELSE shortCount

\* one pass of receive's loop
RecvStep ==
    /\ pc = "recv"
    /\ UNCHANGED <<mon, cfg, paused, op, payload, txloc, sa>>
    /\ IF Expired(waited)
       THEN /\ Raise("Timeout", calls)
            /\ UNCHANGED <<rxst, sent, ret, granted, waited, elapsed, lastRx, rxAt, peer>>
       ELSE \E c \in RxChoices, d \in 0..1 :
            /\ c.k = "none" => d = 0
            /\ lastRx' = RxFrame(c)
            /\ rxAt' = Len(sent)
            /\ waited' = WaitedAfter(c.k = "none", d)
            /\ elapsed' = ElapsedAfter(WaitedAfter(c.k = "none", d) - waited)
            /\ PeerAfter(c)
            /\ RecvFrame(RxFrame(c))

\* receive's first two lines: a fresh state dict, start = now
RecvEntry ==
    /\ pc = "recv_entry"
    /\ pc' = "recv"
    /\ state_expected' = 0 /\ state_payload' = <<>> /\ state_next_seq' = 0 /\ state_bs' = 0
    /\ waited' = 0
    /\ ffCount' = 0 /\ shortCount' = 0 /\ declared' = 0
    /\ UNCHANGED <<mon, cfg, paused, op, outcome, ret, granted, payload, txloc, elapsed, sa,
                   lastRx, rxAt, sent, calls>>

(***************************************************************************)
(* The calls a user of the client makes.                                    *)
(***************************************************************************)
Services == {16, 34}
DataLens == 0..MaxData \cup {LongData}

\* client.send(service, data, Timeout)
SendCall ==
    /\ pc = "idle"
    /\ \E service \in Services, n \in DataLens :
        SendEntry("send", <<service>> \o Range(n), <<>>, <<>>)
    /\ op' = "send"
    /\ ret' = <<>> /\ granted' = FALSE
    /\ lastRx' = NoFrame /\ rxAt' = 0
    /\ UNCHANGED <<mon, cfg, paused, rxst, sa, peer>>

\* client.receive(Timeout), after a send or on its own
ReceiveCall ==
    /\ pc = "idle"
    /\ op' = "receive"
    /\ pc' = "recv_entry"
    /\ outcome' = "none" /\ ret' = <<>> /\ granted' = FALSE
    /\ sent' = IF op = "send" /\ outcome = "ok" THEN sent ELSE <<>>
    /\ calls' = <<>>
    /\ lastRx' = NoFrame /\ rxAt' = 0
    /\ elapsed' = 0
    /\ UNCHANGED <<mon, cfg, paused, payload, txloc, rxst, waited, sa, peer>>

\* client.request(service, data, Timeout): the req hook, then send
ReqLens == {1, 14}
RequestCall ==
    /\ pc = "idle"
    /\ \E n \in ReqLens :
        SendEntry("request", <<34>> \o Range(n), <<>>,
                  <<Hook("req", TRUE, "", <<34>> \o Range(n))>>)
    /\ op' = "request"
    /\ ret' = <<>> /\ granted' = FALSE
    /\ lastRx' = NoFrame /\ rxAt' = 0
    /\ UNCHANGED <<mon, cfg, paused, rxst, sa, peer>>

(***************************************************************************)
(* UDSClient.security_access.                                               *)
(***************************************************************************)
\* the key argument: None, or the bytes of the caller
NoKey == [given |-> FALSE, bytes |-> <<>>]
KeyArgs == {NoKey, [given |-> TRUE, bytes |-> <<1, 2>>], [given |-> TRUE, bytes |-> <<>>]}
Levels == {1, 2}

\* _default_key_algo: every bit of every seed byte flipped, (b ^ 0xFF) & 0xFF
DefaultKeyAlgoMutIdentity(seed) == seed
DefaultKeyAlgo(seed) == [i \in 1..Len(seed) |-> 255 - seed[i]]

\* a key_algo given at construction
CustomKeyAlgo(seed) == [i \in 1..Len(seed) |-> (seed[Len(seed) + 1 - i] + 1) % 256]

\* lines 355-357: the key of the second request
KeyFor(k, seed) ==
    IF k.given THEN k.bytes
    ELSE IF key_algo = "custom" THEN CustomKeyAlgo(seed)
    ELSE DefaultKeyAlgo(seed)

\* client.security_access(level, key, Timeout) up to its first recv:
\* request(0x27, [level * 2 - 1])
SecurityAccessCall ==
    /\ pc = "idle"
    /\ \E lv \in Levels, k \in KeyArgs :
        /\ level' = lv
        /\ key' = k
        /\ SendEntry("security_access", <<39, lv * 2 - 1>>, <<>>,
                     <<Hook("req", TRUE, "", <<39, lv * 2 - 1>>)>>)
    /\ stage' = 1
    /\ op' = "security_access"
    /\ ret' = <<>> /\ granted' = FALSE
    /\ lastRx' = NoFrame /\ rxAt' = 0
    /\ UNCHANGED <<mon, cfg, paused, rxst, peer>>

\* lines 352-358: the seed reply is in; return False, or send the key
SecuritySeed ==
    /\ pc = "sa_seed"
    /\ UNCHANGED <<mon, cfg, paused, op, ret, granted, rxst, level, key, lastRx, rxAt, peer>>
    /\ IF ret = <<>> \/ ret[1] # 103
       THEN /\ pc' = "idle"
            /\ outcome' = "ok"
            /\ UNCHANGED <<payload, txloc, waited, elapsed, stage, sent, calls>>
       ELSE LET seed == From(ret, 2)
                p == <<39, level * 2>> \o KeyFor(key, seed)
            IN  /\ stage' = 2
                /\ SendEntry("security_access", p, sent, Append(calls, Hook("req", TRUE, "", p)))

(***************************************************************************)
(* pause_rx and resume_rx.  UDSClient defines neither (a call raises         *)
(* AttributeError and changes nothing of the client); paused is what the     *)
(* caller last asked for.                                                   *)
(***************************************************************************)
PauseRx ==
    /\ pc = "idle"
    /\ ~paused
    /\ paused' = TRUE
    /\ UNCHANGED <<mon, cfg, op, pc, outcome, ret, granted, payload, txloc, rxst, waited,
                   elapsed, sa, lastRx, rxAt, sent, calls, peer>>

ResumeRx ==
    /\ pc \in {"idle", "recv"}
    /\ paused
    /\ paused' = FALSE
    /\ UNCHANGED <<mon, cfg, op, pc, outcome, ret, granted, payload, txloc, rxst, waited,
                   elapsed, sa, lastRx, rxAt, sent, calls, peer>>

(***************************************************************************)
(* The client as constructed: UDSClient(bus, REQ_ID, RESP_ID, ...).         *)
(***************************************************************************)
ClientInit(aes, bss, algos, maxs, mode) ==
    /\ peerMode = mode
    /\ address_extension \in aes
    /\ rx_block_size \in bss
    /\ rx_st_min = 5
    /\ key_algo \in algos
    /\ max_rx_size \in maxs
    /\ paused = FALSE
    /\ op = "none" /\ pc = "idle" /\ outcome = "none" /\ ret = <<>> /\ granted = FALSE
    /\ payload = <<>>
    /\ offset = 0 /\ seq = 0 /\ sent_in_block = 0 /\ block_size = 0 /\ st_delay = 0
    /\ state_expected = 0 /\ state_payload = <<>> /\ state_next_seq = 0 /\ state_bs = 0
    /\ waited = 0 /\ elapsed = 0
    /\ level = 0 /\ key = <<>> /\ stage = 0
    /\ lastRx = NoFrame /\ rxAt = 0 /\ sent = <<>> /\ calls = <<>>
    /\ ffCount = 0 /\ shortCount = 0 /\ declared = 0

(***************************************************************************)
(* The monitor before anything ran: reset_metrics() has zeroed the counters, *)
(* main's delay is 1.0, monitor's locals are as lines 249-283 set them.      *)
(* at is where the behaviour starts: "open" in main, "running" in a direct   *)
(* call of monitor, "off" when the monitor is not used.                     *)
(***************************************************************************)
NotCalled == <<None>>
\* the threads that use metrics.py, and a thread outside its functions
NumThreads == 2
Threads == 1..NumThreads
Idle == [pc |-> "idle", val |-> 0]
MonitorInit(dbs, udss, raws, sers, rets, at) ==
    /\ db_mode \in dbs /\ uds_mode \in udss /\ print_raw \in raws
    /\ serializer \in sers /\ retries \in rets
    /\ mpc = at /\ exc = "none" /\ delay = 1 /\ slept = <<>>
    /\ metrics = [bus_errors |-> 0, restarts |-> 0, decoding_failures |-> 0]
    /\ uds_expected = 0 /\ uds_payload = <<>> /\ missing_ids = {}
    /\ msg = NoFrame /\ bus_off = FALSE /\ busSent = <<>> /\ logged = <<>>
    /\ dtc_payload = NotCalled /\ decoded = <<>> /\ recvs = 0
    /\ send_queue = <<>> /\ unfinished = 0 /\ enqueued = <<>> /\ delivered = <<>>
    /\ wpc = "get" /\ t_payload = <<>> /\ attempts = 0 /\ t_trace = <<>>
    /\ t_result = "none" /\ w_logged = <<>>
    /\ code_in = <<>> /\ code_out = <<>>
    /\ m_ops = <<>>
    /\ thr = [t \in Threads |-> Idle]

InitWith(aes, bss, algos, maxs, mode) ==
    /\ ClientInit(aes, bss, algos, maxs, mode)
    /\ MonitorInit({"none"}, {"off"}, {FALSE}, {"none"}, {1}, "off")

(***************************************************************************)
(* send alone.                                                              *)
(***************************************************************************)
InitSend == InitWith({None, AE}, {0}, {"default"}, {None}, "any")
NextSend == SendCall \/ FcWaitFirst \/ CfLoop \/ FcWaitBlock \/ CfEmit
SpecSend == InitSend /\ [][NextSend]_vars

(***************************************************************************)
(* receive alone.                                                           *)
(***************************************************************************)
InitRecv == InitWith({None, AE}, 0..2, {"default"}, {None}, "any")
NextRecv == ReceiveCall \/ RecvEntry \/ RecvStep
SpecRecv == InitRecv /\ [][NextRecv]_vars

(***************************************************************************)
(* receive with the caller's flow-state and size limit.                     *)
(***************************************************************************)
InitRxCtl == InitWith({None}, {0}, {"default"}, {None, 4}, "ecu")
NextRxCtl == PauseRx \/ ResumeRx \/ ReceiveCall \/ RecvEntry \/ RecvStep
SpecRxCtl == InitRxCtl /\ [][NextRxCtl]_vars

(***************************************************************************)
(* send, then receive, against a peer that mirrors the client's frames.     *)
(***************************************************************************)
InitLoop == InitWith({None, AE}, {0}, {"default"}, {None}, "mirror")
NextLoop ==
    \/ SendCall \/ FcWaitFirst \/ CfLoop \/ FcWaitBlock \/ CfEmit
    \/ ReceiveCall \/ RecvEntry \/ RecvStep
SpecLoop == InitLoop /\ [][NextLoop]_vars

(***************************************************************************)
(* request and security_access against an ECU.                              *)
(***************************************************************************)
InitReq == InitWith({None, AE}, {0}, {"default", "custom"}, {None}, "ecu")
NextReq ==
    \/ RequestCall \/ SecurityAccessCall \/ SecuritySeed
    \/ FcWaitFirst \/ CfLoop \/ FcWaitBlock \/ CfEmit
    \/ RecvEntry \/ RecvStep
SpecReq == InitReq /\ [][NextReq]_vars

(***************************************************************************)
(* Reading the frames of the log.                                           *)
(***************************************************************************)
\* the bytes before the PCI byte, the PCI byte of a frame and its two nibbles
Hdr == IF address_extension = None THEN 0 ELSE 1
Pci(f) == f.data[Hdr + 1]
PciType(f) == Pci(f) \div 16
PciLow(f) == Pci(f) % 16
Addressed(f) ==
    /\ f.id = RESP_ID
    /\ Len(f.data) > Hdr
    /\ address_extension # None => f.data[1] = address_extension

\* byte j of the message whose First Frame is sent[1] and whose Consecutive
\* Frames follow it, read as ISO-TP lays it out
CarriedByte(j) ==
    IF j <= FirstLen
    THEN sent[1].data[Hdr + 2 + j]
    ELSE sent[2 + ((j - FirstLen - 1) \div ChunkLen)].data[
             Hdr + 2 + ((j - FirstLen - 1) % ChunkLen)]

(***************************************************************************)
(* C1: a payload of at most 7 bytes (6 with an address extension) is sent   *)
(* as exactly one frame, a Single Frame whose PCI low nibble is the         *)
(* payload's length, and receive, given that frame's data, returns the      *)
(* payload.                                                                 *)
(***************************************************************************)
C1_SingleFrameRoundTrip ==
    /\ (op = "send" /\ pc = "idle" /\ outcome = "ok" /\ Len(payload) <= SingleLimit)
        => /\ Len(sent) = 1
           /\ sent[1].id = REQ_ID
           /\ Len(sent[1].data) = 8
           /\ PciType(sent[1]) = 0
           /\ PciLow(sent[1]) = Len(payload)
    /\ (/\ op = "receive" /\ pc = "idle" /\ outcome # "none"
        /\ Len(sent) = 1 /\ PciType(sent[1]) = 0
        /\ lastRx = Frame(RESP_ID, sent[1].data))
        => outcome = "ok" /\ ret = payload

C1_Witness ==
    /\ op = "receive" /\ pc = "idle" /\ outcome = "ok"
    /\ address_extension = AE
    /\ Len(sent) = 1 /\ lastRx = Frame(RESP_ID, sent[1].data)
    /\ Len(payload) = 6
    /\ ret = payload

(***************************************************************************)
(* C2: a payload over the single-frame limit, once sent, has gone out as    *)
(* one First Frame and n Consecutive Frames numbered 1, 2, ..., n mod 16,   *)
(* and the bytes the First Frame (6, or 5) and the Consecutive Frames (7,   *)
(* or 6, each) carry are the payload's bytes in order, no frame more or     *)
(* less than the payload needs.                                             *)
(***************************************************************************)
C2_Segmentation ==
    (op = "send" /\ pc = "idle" /\ outcome = "ok" /\ Len(payload) > SingleLimit)
    => LET n == Len(sent) - 1
       IN  /\ n >= 1
           /\ \A i \in 1..Len(sent) : sent[i].id = REQ_ID /\ Len(sent[i].data) = 8
           /\ PciType(sent[1]) = 1
           /\ \A i \in 1..n : Pci(sent[i + 1]) = 32 + (i % 16)
           /\ FirstLen + (n - 1) * ChunkLen < Len(payload)
           /\ Len(payload) <= FirstLen + n * ChunkLen
           /\ \A j \in 1..Len(payload) : CarriedByte(j) = payload[j]

C2_Witness ==
    /\ op = "send" /\ pc = "idle" /\ outcome = "ok"
    /\ Len(payload) = LongData + 1
    /\ Len(sent) > 17
    /\ Pci(sent[17]) = 32
    /\ Pci(sent[18]) = 33

(***************************************************************************)
(* C3: in a multi-frame send a Consecutive Frame goes out only when the     *)
(* last thing received is a CTS flow-control frame; after a CTS with        *)
(* BlockSize b > 0 at most b Consecutive Frames go out before the sender    *)
(* waits again, and it waits again only when exactly b have gone out since  *)
(* that CTS (the count restarts on every CTS); after a CTS with b = 0 it    *)
(* never waits again.                                                       *)
(***************************************************************************)
IsCts(f) == Addressed(f) /\ Pci(f) = 48 /\ Len(f.data) >= Hdr + 3
CtsBlockSize(f) == f.data[Hdr + 2]
EmitsCF == Len(sent') = Len(sent) + 1 /\ PciType(sent'[Len(sent')]) = 2
StartsFcWait == pc = "cf_loop" /\ pc' = "fc_block"

C3_FlowControl ==
    [][/\ EmitsCF =>
            /\ IsCts(lastRx)
            /\ lastRx' = lastRx
            /\ CtsBlockSize(lastRx) > 0 => Len(sent) - rxAt < CtsBlockSize(lastRx)
       /\ StartsFcWait =>
            /\ IsCts(lastRx)
            /\ CtsBlockSize(lastRx) > 0
            /\ Len(sent) - rxAt = CtsBlockSize(lastRx)
            /\ sent' = sent]_vars

\* a block of MaxBS frames, a second CTS with BlockSize 0, and the rest sent in one go
C3_Witness ==
    /\ op = "send" /\ pc = "idle" /\ outcome = "ok"
    /\ IsCts(lastRx) /\ CtsBlockSize(lastRx) = 0
    /\ rxAt = 1 + MaxBS
    /\ Len(sent) - rxAt > MaxBS

(***************************************************************************)
(* C4: in receive, while bytes of a message are expected, the bytes         *)
(* buffered plus the bytes expected are the total the First Frame declared, *)
(* whatever the data length of the frames, and a payload completed by a     *)
(* Consecutive Frame has the declared length.                               *)
(***************************************************************************)
CompletedByCF ==
    /\ op = "receive" /\ pc = "idle" /\ outcome = "ok"
    /\ Addressed(lastRx) /\ PciType(lastRx) = 2

C4_LengthInvariant ==
    /\ (pc = "recv" /\ ffCount > 0 /\ state_expected > 0)
        => Len(state_payload) + state_expected = declared
    /\ CompletedByCF => Len(ret) = declared

(***************************************************************************)
(* C5: receive takes a Consecutive Frame only when its sequence number is   *)
(* the expected one, which is 1 after a First Frame and one more, mod 16,   *)
(* after every Consecutive Frame taken; a Consecutive Frame with another    *)
(* number, while bytes are expected, ends receive with the sequence         *)
(* mismatch error, the buffer empty, nothing returned and no ind hook.      *)
(***************************************************************************)
\* this step is one pass of receive's loop on the frame lastRx'
RecvOf(type) ==
    /\ pc = "recv" /\ waited < Timeout
    /\ Addressed(lastRx') /\ PciType(lastRx') = type
TakesCF ==
    /\ RecvOf(2)
    /\ \/ Len(state_payload') > Len(state_payload)
       \/ outcome' = "ok"

C5_SequenceCheck ==
    [][/\ (RecvOf(1) /\ Len(lastRx'.data) >= Hdr + 2) => state_next_seq' = 1
       /\ TakesCF =>
            /\ state_expected > 0
            /\ PciLow(lastRx') = state_next_seq
            /\ state_next_seq' = (state_next_seq + 1) % 16
       /\ (RecvOf(2) /\ state_expected > 0 /\ PciLow(lastRx') # state_next_seq) =>
            /\ pc' = "idle"
            /\ outcome' = "SequenceMismatch"
            /\ state_payload' = <<>>
            /\ state_expected' = 0
            /\ ret' = <<>>
            /\ calls' = calls
            /\ sent' = sent
       /\ (pc = "recv" /\ ~RecvOf(1) /\ ~TakesCF) => state_next_seq' = state_next_seq]_vars

\* the sixteenth Consecutive Frame is numbered 1 where 0 is expected
C5_Witness ==
    /\ op = "receive" /\ pc = "idle" /\ outcome = "SequenceMismatch"
    /\ state_next_seq = 0
    /\ PciLow(lastRx) = 1
    /\ state_payload = <<>>
    /\ ret = <<>>

(***************************************************************************)
(* C6: after pause_rx(), receive answers a First Frame with a flow-control  *)
(* WAIT frame (PCI 0x31) and not with CTS; CTS (0x30) follows resume_rx().  *)
(***************************************************************************)
\* receive has just answered the First Frame lastRx
AnsweredFF ==
    /\ op = "receive"
    /\ Addressed(lastRx) /\ PciType(lastRx) = 1
    /\ Len(sent) > rxAt

C6_PausedAnswersWait ==
    (paused /\ AnsweredFF) => Pci(sent[Len(sent)]) = 49

(***************************************************************************)
(* C7: with max_rx_size configured, a First Frame that declares more than   *)
(* max_rx_size bytes makes receive send a flow-control OVERFLOW frame (PCI  *)
(* 0x32) and fail with an ISO-TP error, none of the message buffered.       *)
(***************************************************************************)
\* receive has just answered the First Frame lastRx, which declares more than
\* max_rx_size
OversizeFF ==
    /\ AnsweredFF
    /\ max_rx_size # None
    /\ Addressed(lastRx) /\ PciType(lastRx) = 1 /\ Len(lastRx.data) >= Hdr + 2
    /\ (lastRx.data[Hdr + 1] % 16) * 256 + lastRx.data[Hdr + 2] > max_rx_size

C7_OverflowRejected ==
    OversizeFF =>
        /\ pc = "idle" /\ outcome \notin {"none", "ok"}
        /\ state_payload = <<>>
        /\ Pci(sent[Len(sent)]) = 50

(***************************************************************************)
(* C8: a request that succeeds has called the hooks in the order req (before *)
(* any frame is transmitted), con(True) (after the last frame of the         *)
(* request), som_ind (at the First Frame of the response) and ind (once,     *)
(* with the payload request returns); no som_ind for a single-frame          *)
(* response.                                                                *)
(***************************************************************************)
ReqHook == Hook("req", TRUE, "", payload)
ConHook == Hook("con", TRUE, "", <<>>)
SomHook == Hook("som_ind", TRUE, "", <<>>)
IndHook == Hook("ind", TRUE, "", ret)
SomHooks(n) == [i \in 1..n |-> SomHook]
RequestDone == op = "request" /\ pc = "idle" /\ outcome = "ok"

\* as the claim has it: som_ind once when a Consecutive Frame completed the
\* response, not at all when a Single Frame did
C8_HookOrderAsStated ==
    RequestDone =>
        calls = IF PciType(lastRx) = 2
                THEN <<ReqHook, ConHook, SomHook, IndHook>>
                ELSE <<ReqHook, ConHook, IndHook>>

\* as the code has it: som_ind once for every First Frame receive read,
\* whatever frame completes the response
C8_HookOrder ==
    /\ (op = "request" /\ sent # <<>>) => (calls # <<>> /\ calls[1] = ReqHook)
    /\ (op = "request" /\ pc \in {"fc_first", "cf_loop", "fc_block", "cf_emit"})
        => calls = <<ReqHook>>
    /\ (op = "request" /\ pc = "recv_entry") => calls = <<ReqHook, ConHook>>
    /\ (op = "request" /\ pc = "recv")
        => calls = <<ReqHook, ConHook>> \o SomHooks(ffCount)
    /\ RequestDone => calls = <<ReqHook, ConHook>> \o SomHooks(ffCount) \o <<IndHook>>

\* a multi-frame request answered by a First Frame, a second First Frame and
\* the Consecutive Frame that completes the second message
C8_Witness ==
    /\ RequestDone
    /\ Len(payload) > SingleLimit
    /\ ffCount = 2
    /\ PciType(lastRx) = 2
    /\ Len(ret) = declared
    /\ Len(calls) = 5

(***************************************************************************)
(* C9: the key security_access transmits is the key of the caller when one  *)
(* is given, else key_algo(seed) when a key_algo was given at construction, *)
(* else the seed with every bit of every byte flipped (AA BB gives 55 44),  *)
(* as long as the seed; the seed is the seed reply without its first two    *)
(* bytes.                                                                   *)
(***************************************************************************)
Bit(b, n) == (n \div (2 ^ b)) % 2
\* the frames that carry a payload of n bytes
FramesFor(n) ==
    IF n <= SingleLimit THEN 1 ELSE 1 + ((n - FirstLen + ChunkLen - 1) \div ChunkLen)
\* byte j of the n-byte payload carried by the frames after sent[base]
WireByte(base, n, j) ==
    IF n <= SingleLimit THEN sent[base + 1].data[Hdr + 1 + j]
    ELSE IF j <= FirstLen THEN sent[base + 1].data[Hdr + 2 + j]
    ELSE sent[base + 2 + ((j - FirstLen - 1) \div ChunkLen)].data[
             Hdr + 2 + ((j - FirstLen - 1) % ChunkLen)]

C9_TransmittedKey ==
    LET seed == From(ret, 2)
        K == From(payload, 2)
        n == Len(payload)
    IN  /\ (op = "security_access" /\ stage = 2 /\ pc # "idle") =>
            /\ Slice(payload, 0, 2) = <<39, level * 2>>
            /\ key.given => K = key.bytes
            /\ (~key.given /\ key_algo = "custom") => K = CustomKeyAlgo(seed)
            /\ (~key.given /\ key_algo = "default") =>
                /\ Len(K) = Len(seed)
                /\ \A i \in 1..Len(seed) : \A b \in 0..7 : Bit(b, K[i]) # Bit(b, seed[i])
        /\ (op = "security_access" /\ stage = 2 /\ pc = "recv_entry") =>
            /\ Len(sent) > FramesFor(n)
            /\ \A j \in 1..n : WireByte(Len(sent) - FramesFor(n), n, j) = payload[j]

C9_Witness ==
    /\ op = "security_access" /\ stage = 2 /\ pc = "recv_entry"
    /\ ~key.given /\ key_algo = "default" /\ level = 1
    /\ ret = <<103, 1, 170, 187>>
    /\ payload = <<39, 2, 85, 68>>
    /\ Len(sent) = 2

(***************************************************************************)
(* C10: with an address extension configured, every frame the client        *)
(* transmits has the AE byte first and the PCI byte second, and a frame     *)
(* read from the bus whose identifier is not resp_id or whose first byte is *)
(* not the AE is ignored: it changes nothing of a reassembly in receive and *)
(* ends no flow-control wait of send.                                       *)
(***************************************************************************)
\* this step reads, in receive or in a flow-control wait, a frame for another
\* identifier or another address extension
ReadsForeign ==
    /\ address_extension # None
    /\ pc \in {"recv", "fc_first", "fc_block"} /\ waited < Timeout
    /\ lastRx' # NoFrame
    /\ \/ lastRx'.id # RESP_ID
       \/ Len(lastRx'.data) > 0 /\ lastRx'.data[1] # address_extension

C10_AddressExtension ==
    [][/\ address_extension' # None =>
            \A i \in 1..Len(sent') :
                /\ sent'[i].id = REQ_ID
                /\ Len(sent'[i].data) = 8
                /\ sent'[i].data[1] = address_extension'
                /\ sent'[i].data[2] \div 16 \in 0..3
       /\ ReadsForeign =>
            UNCHANGED <<rxst, txloc, pc, outcome, ret, granted, payload, sent, calls>>]_vars

\* a frame with another address extension read in the middle of a reassembly,
\* after the client's request and its flow control
C10_Witness ==
    /\ address_extension = AE
    /\ pc = "recv" /\ state_expected > 0 /\ state_payload # <<>>
    /\ lastRx.id = RESP_ID /\ lastRx.data[1] = OTHER_AE
    /\ Len(sent) >= 2 /\ sent[Len(sent)].data[2] = 48

(***************************************************************************)
(* The DTC decoder of can_monitor.py.  A DTC code is the string of          *)
(* _convert_to_pcode, character by character; a log record is the level and *)
(* the arguments of the logging call.                                       *)
(***************************************************************************)
HexDigits == <<"0", "1", "2", "3", "4", "5", "6", "7",
               "8", "9", "A", "B", "C", "D", "E", "F">>
\* f"{n:04X}" for n below 0x10000
Hex04(n) == <<HexDigits[((n \div 4096) % 16) + 1], HexDigits[((n \div 256) % 16) + 1],
              HexDigits[((n \div 16) % 16) + 1], HexDigits[(n % 16) + 1]>>

letter_map == [i \in 0..3 |-> <<"P", "C", "B", "U">>[i + 1]]

convert_to_pcodeMutLetter(code_bytes) ==
    IF Len(code_bytes) < 2 THEN <<"P", "0", "0", "0", "0">>
    ELSE LET value == code_bytes[1] * 256 + code_bytes[2]
         IN  <<"P">> \o Hex04(value % 16384)
convert_to_pcode(code_bytes) ==
    IF Len(code_bytes) < 2 THEN <<"P", "0", "0", "0", "0">>
    ELSE LET value == code_bytes[1] * 256 + code_bytes[2]
             letter == letter_map[(value \div 16384) % 4]
             digits == value % 16384
         IN  <<letter>> \o Hex04(digits)

\* uds_config["dtcs"]: the configured table, its entries having the keys they
\* have in the configuration file
DtcTable ==
    (<<"P", "2", "0", "F", "9">> :> [description |-> "NOx sensor", severity |-> "CRITICAL",
                                     component |-> "SCR", alert |-> TRUE])
    @@ (<<"P", "0", "5", "8", "D">> :> [description |-> "Battery", severity |-> "WARNING"])
    @@ (<<"C", "0", "1", "2", "3">> :> [description |-> "ABS", severity |-> "critical",
                                        alert |-> FALSE])
    @@ (<<"B", "0", "0", "0", "1">> :> [severity |-> "INFO", alert |-> TRUE])
    @@ (<<"U", "3", "F", "F", "F">> :> [component |-> "Gateway"])

\* dict.get(k, d)
Get(d, k, default) == IF k \in DOMAIN d THEN d[k] ELSE default
\* str.upper() of the severities of the table
Upper(str) == IF str = "critical" THEN "CRITICAL" ELSE str

Log(lvl, text) == [level |-> lvl, text |-> text]

\* lines 166-186: the log records of the DTC at entries[start : start + 4]
DtcAlertMutFlagOnly(info, severity) == Get(info, "alert", FALSE)
DtcAlert(info, severity) == Get(info, "alert", FALSE) \/ Upper(severity) = "CRITICAL"

DtcRecords(entries, start) ==
    LET code == convert_to_pcode(Slice(entries, start, start + 3))
        known == code \in DOMAIN DtcTable
        info == IF known THEN DtcTable[code] ELSE <<>>
        desc == IF known THEN Get(info, "description", "") ELSE "Unknown DTC"
        severity == IF known THEN Get(info, "severity", "INFO") ELSE "UNKNOWN"
        component == IF known THEN Get(info, "component", "Unknown") ELSE "Unknown"
        alert == IF known THEN DtcAlert(info, severity) ELSE FALSE
    IN  <<Log("info", <<"DTC", code, component, desc, severity>>)>>
        \o (IF alert THEN <<Log("error", <<"ALERT", code, desc>>)>> ELSE <<>>)

\* the loop of lines 162-186 from DTC number i on
RECURSIVE DtcLoop(_, _, _)
DtcLoop(entries, i, dtc_count) ==
    IF i >= dtc_count \/ i * 4 + 4 > Len(entries) THEN <<>>
    ELSE DtcRecords(entries, i * 4) \o DtcLoop(entries, i + 1, dtc_count)

\* _process_uds_payload: the log records it writes
process_uds_payload(p) ==
    IF Len(p) < 3 THEN <<>>
    ELSE IF p[1] = 89 /\ p[2] = 2 THEN DtcLoop(From(p, 3), 0, p[3])
    ELSE <<>>

(***************************************************************************)
(* The passive reassembler, _handle_uds_frame.  uds_config gives the        *)
(* response and request identifiers and the flow-control parameters.        *)
(***************************************************************************)
ecu_resp_id == IF uds_mode = "off" THEN None ELSE RESP_ID
\* uds_config without "ecu_request_id": the monitor only listens
ecu_req_id == IF uds_mode = "full" THEN REQ_ID ELSE None
\* flow_control.block_size (wider than a byte) and flow_control.st_min_ms
flow_block == 258
flow_st == 20

\* the flow-control frame of lines 219-223
MonFcMutStatus == Frame(ecu_req_id, <<49, flow_block % 256, flow_st % 256, 0, 0, 0, 0, 0>>)
MonFc == Frame(ecu_req_id, <<48, flow_block % 256, flow_st % 256, 0, 0, 0, 0, 0>>)

\* what one call does: the value returned or the exception raised, uds_state
\* afterwards, the frames given to bus.send, the payload given to
\* _process_uds_payload.  io: bus.send takes the frame.
handle_uds_frame(data, io) ==
    LET same == [ret |-> TRUE, raise |-> "none", expected |-> uds_expected,
                 payload |-> uds_payload, sent |-> <<>>, dtc |-> NotCalled]
    IN  IF Len(data) = 0 THEN same
        ELSE LET pci == data[1]
                 frame_type == pci \div 16
             IN  IF frame_type = 0
                 THEN [same EXCEPT !.dtc = Slice(data, 1, 1 + (pci % 16))]
                 ELSE IF frame_type = 1
                 THEN IF Len(data) < 2 THEN [same EXCEPT !.raise = "IndexError"]
                      ELSE LET length == (pci % 16) * 256 + data[2]
                               st == [same EXCEPT !.payload = From(data, 2),
                                                  !.expected = length - Len(From(data, 2))]
                           IN  IF ecu_req_id = None THEN st
                               ELSE IF io THEN [st EXCEPT !.sent = <<MonFc>>]
                               ELSE [st EXCEPT !.raise = "CanError"]
                 ELSE IF frame_type = 2 /\ uds_expected > 0
                 THEN LET take == Min(uds_expected, 7)
                          buf == uds_payload \o Slice(data, 1, 1 + take)
                      IN  IF uds_expected - take <= 0
                          THEN [same EXCEPT !.dtc = buf, !.payload = <<>>, !.expected = 0]
                          ELSE [same EXCEPT !.payload = buf, !.expected = uds_expected - take]
                 ELSE [same EXCEPT !.ret = FALSE]

(***************************************************************************)
(* Decoding against the signal databases.  A database is the set of frame   *)
(* identifiers it has a message for; its messages are 8 bytes long, and     *)
(* decode_message raises KeyError for another identifier and a decoding     *)
(* error for a shorter frame.                                               *)
(***************************************************************************)
KNOWN_ID == 256
FB2_ID == KNOWN_ID + 1
UNKNOWN_ID == KNOWN_ID + 2
PrimaryDb == {KNOWN_ID}
FallbackDbs == <<{KNOWN_ID}, {FB2_ID}>>

decode_message(candb, f) ==
    IF f.id \notin candb THEN "KeyError"
    ELSE IF Len(f.data) < 8 THEN "Error"
    ELSE "ok"
\* the signals of a decoded frame
Signals(f) == <<"signals", f.id, f.data[1], f.data[8]>>

\* "%03X" % id and data.hex()
HexId(id) == SubSeq(Hex04(id), 2, 4)
RECURSIVE HexStr(_)
HexStr(data) ==
    IF data = <<>> THEN <<>>
    ELSE <<HexDigits[(data[1] \div 16) + 1], HexDigits[(data[1] % 16) + 1]>>
            \o HexStr(Tail(data))

\* lines 318-326 and 350-358: info the first time an identifier misses, debug after
NoEntryLog(f) ==
    Log(IF f.id \in missing_ids THEN "debug" ELSE "info", <<"No DBC entry", HexId(f.id)>>)
DecodeErrorLog(f) == Log("warning", <<"Decoding error", HexId(f.id)>>)

\* lines 333-347: the loop over fallback_dbs from database i on: what was
\* decoded (<<>> for None) and how many databases raised a decoding error
RECURSIVE FallbackLoop(_, _)
FallbackLoop(i, f) ==
    IF i > Len(FallbackDbs) THEN [decoded |-> <<>>, errors |-> 0]
    ELSE LET r == decode_message(FallbackDbs[i], f)
         IN  IF r = "ok" THEN [decoded |-> Signals(f), errors |-> 0]
             ELSE IF r = "KeyError" THEN FallbackLoop(i + 1, f)
             ELSE [FallbackLoop(i + 1, f) EXCEPT !.errors = @ + 1]

\* lines 309-358: what was decoded, the calls of record_decoding_failure, the
\* log records, whether the identifier is added to missing_ids.  db_mode: "db",
\* a primary database and no fallback_dbs; "both", a primary database and
\* fallback_dbs ("if db:" is taken); "fallback", fallback_dbs only; "none"
Decoding(f) ==
    IF db_mode \in {"db", "both"}
    THEN LET r == decode_message(PrimaryDb, f)
         IN  IF r = "ok"
             THEN [decoded |-> Signals(f), failures |-> 0, logs |-> <<>>, missing |-> FALSE]
             ELSE IF r = "KeyError"
             THEN [decoded |-> <<>>, failures |-> 1, logs |-> <<NoEntryLog(f)>>,
                   missing |-> TRUE]
             ELSE [decoded |-> <<>>, failures |-> 1, logs |-> <<DecodeErrorLog(f)>>,
                   missing |-> FALSE]
    ELSE IF db_mode = "fallback"
    THEN LET r == FallbackLoop(1, f)
             none == r.decoded = <<>>
         IN  [decoded |-> r.decoded,
              failures |-> r.errors + (IF none THEN 1 ELSE 0),
              logs |-> [i \in 1..r.errors |-> DecodeErrorLog(f)]
                        \o (IF none THEN <<NoEntryLog(f)>> ELSE <<>>),
              missing |-> none]
    ELSE [decoded |-> <<>>, failures |-> 0, logs |-> <<>>, missing |-> FALSE]

(***************************************************************************)
(* The frames the bus delivers to the monitor.                              *)
(***************************************************************************)
Data8 == <<1, 2, 3, 4, 5, 6, 7, 8>>
RegularFrames ==
    {Frame(KNOWN_ID, Data8), Frame(KNOWN_ID, <<1>>), Frame(FB2_ID, Data8),
     Frame(UNKNOWN_ID, Data8)}
\* on the response identifier: Single Frames (one DTC; a count of two with one
\* record; another service), First Frames of 11 and 15 bytes, Consecutive
\* Frames, a flow-control frame, a First Frame cut after its PCI byte, no data
UdsFrames ==
    {Frame(RESP_ID, d) : d \in
        {<<7, 89, 2, 1, 32, 249, 0, 64>>, <<7, 89, 2, 2, 5, 141, 0, 64>>,
         <<2, 80, 3, 0, 0, 0, 0, 0>>,
         <<16, 11, 89, 2, 2, 32, 249, 0>>, <<16, 11, 89, 2, 1, 65, 35, 0>>,
         <<16, 15, 89, 2, 3, 193, 0, 0>>,
         <<33, 64, 5, 141, 0, 64, 0, 0>>, <<33, 8, 128, 1, 0, 8, 255, 255>>,
         <<34, 0, 8, 0, 0, 0, 0, 0>>,
         <<48, 0, 0, 0, 0, 0, 0, 0>>, <<16>>, <<>>}}
\* what recv returns; the frame only a second database knows is delivered
\* where fallback databases are configured
MonBus ==
    {NoFrame} \cup {f \in RegularFrames : f.id = FB2_ID => db_mode \in {"fallback", "both"}}
              \cup (IF uds_mode = "off" THEN {} ELSE UdsFrames)

(***************************************************************************)
(* One pass of monitor's receive loop, lines 286-382.                       *)
(***************************************************************************)
\* serialization.serialize_frame for the formats it knows
serialize_frame(f, dec, fmt) ==
    IF fmt = "json" THEN <<"{", "id", f.id, "raw", HexStr(f.data), "decoded", dec, "}">>
    ELSE <<f.id, HexStr(f.data), dec>>

\* lines 360-366
FrameLog(f, dec) ==
    IF print_raw
    THEN <<Log("info", <<"id", HexId(f.id), "raw", HexStr(f.data)>>
                        \o (IF dec # <<>> THEN <<"decoded", dec>> ELSE <<>>))>>
    ELSE IF dec # <<>> THEN <<Log("info", <<"id", HexId(f.id), "decoded", dec>>)>>
    ELSE <<>>

\* is_bus_off(bus) of lines 288 and 380 finds BUS_OFF
BusOffCheckMutNever(off) == FALSE
BusOffCheck(off) == off

\* line 376: put_nowait finds the queue full
QueueFullMutOneMore == Len(send_queue) > QueueCap
QueueFull == Len(send_queue) >= QueueCap

\* the pass on the value f of recv, the bus state being BUS_OFF or not and
\* bus.send working or not: the exception that ends the loop, uds_state, the
\* frames sent, the log records, the decoding and the counters, the queue
MonitorPass(f, off, io) ==
    LET idle == [raise |-> "none", expected |-> uds_expected, payload |-> uds_payload,
                 sent |-> <<>>, logs |-> <<>>, dtc |-> NotCalled, decoded |-> <<>>,
                 failures |-> 0, bus_err |-> 0, missing |-> {}, put |-> "none"]
        busoff == [raise |-> "BusOff", bus_err |-> 1]
        h == handle_uds_frame(f.data, io)
        d == Decoding(f)
        frame == [idle EXCEPT !.decoded = d.decoded, !.failures = d.failures,
                              !.logs = d.logs \o FrameLog(f, d.decoded),
                              !.missing = IF d.missing THEN {f.id} ELSE {}]
        queued == IF serializer = "none" THEN frame
                  ELSE IF serializer \notin {"json", "csv"}
                  THEN [frame EXCEPT !.raise = "ValueError"]
                  ELSE IF QueueFull
                  THEN [frame EXCEPT !.put = "drop",
                                     !.logs = @ \o <<Log("warning", <<"Transport queue full">>)>>]
                  ELSE [frame EXCEPT !.put = "put"]
    IN  IF f = NoFrame
        THEN IF BusOffCheck(off) THEN busoff @@ idle ELSE idle
        ELSE IF uds_mode # "off" /\ f.id = ecu_resp_id /\ h.raise # "none"
        THEN [idle EXCEPT !.raise = h.raise, !.expected = h.expected, !.payload = h.payload]
        ELSE IF uds_mode # "off" /\ f.id = ecu_resp_id /\ h.ret
        THEN [idle EXCEPT !.expected = h.expected, !.payload = h.payload, !.sent = h.sent,
                          !.dtc = h.dtc,
                          !.logs = IF h.dtc = NotCalled THEN <<>>
                                   ELSE process_uds_payload(h.dtc)]
        ELSE IF queued.raise = "none" /\ BusOffCheck(off) THEN busoff @@ queued
        ELSE queued

\* an exception leaves the loop: the finally clause joins the queue if there is one
MonRaise(e) ==
    /\ exc' = e
    /\ mpc' = IF serializer # "none" THEN "joining" ELSE "failed"

\* the record put on the queue, with the number of the recv call it came from
QueueItem(f, dec) == [n |-> recvs + 1, payload |-> serialize_frame(f, dec, serializer)]

MonitorStep ==
    /\ mpc = "running"
    /\ recvs < MaxRecv
    /\ \E f \in MonBus, off \in BOOLEAN, io \in BOOLEAN :
        /\ ~io => (uds_mode = "full" /\ f.id = RESP_ID /\ Len(f.data) >= 2
                    /\ f.data[1] \div 16 = 1)
        /\ LET r == MonitorPass(f, off, io)
               putting == r.put = "put"
           IN  /\ msg' = f /\ bus_off' = off
               /\ busSent' = r.sent /\ logged' = r.logs /\ dtc_payload' = r.dtc
               /\ decoded' = r.decoded
               /\ recvs' = recvs + 1
               /\ uds_expected' = r.expected /\ uds_payload' = r.payload
               /\ missing_ids' = missing_ids \cup r.missing
               /\ metrics' = [metrics EXCEPT !.decoding_failures = @ + r.failures,
                                             !.bus_errors = @ + r.bus_err]
               /\ send_queue' = IF putting THEN Append(send_queue, QueueItem(f, r.decoded))
                                ELSE send_queue
               /\ enqueued' = IF putting THEN Append(enqueued, QueueItem(f, r.decoded))
                              ELSE enqueued
               /\ unfinished' = IF putting THEN unfinished + 1 ELSE unfinished
               /\ IF r.raise = "none" THEN UNCHANGED <<mpc, exc>> ELSE MonRaise(r.raise)
    /\ UNCHANGED <<client, m_ops, thr, moncfg, delay, slept, delivered, worker, pcode>>

\* bus.recv raises can.CanError, or the interrupt arrives while it waits
MonitorRecvFails ==
    /\ mpc = "running"
    /\ recvs < MaxRecv
    /\ recvs' = recvs + 1
    /\ msg' = NoFrame /\ bus_off' = FALSE /\ busSent' = <<>> /\ logged' = <<>>
    /\ dtc_payload' = NotCalled /\ decoded' = <<>>
    /\ \E e \in {"CanError", "KeyboardInterrupt"} : MonRaise(e)
    /\ UNCHANGED <<client, m_ops, thr, moncfg, delay, slept, metrics, monloc, queue, worker, pcode>>

(***************************************************************************)
(* main's reconnect loop, lines 452-491.                                    *)
(***************************************************************************)
\* lines 455-466: can.interface.Bus(...) opens the bus, raises can.CanError, or
\* the interrupt arrives while it is opened; monitor starts with fresh locals;
\* line 474 (delay = 1.0) follows monitor's return, and monitor never returns
MainOpen ==
    /\ mpc = "open"
    /\ \E r \in {"ok", "CanError", "KeyboardInterrupt"} :
        IF r = "ok"
        THEN /\ mpc' = "running"
             /\ uds_expected' = 0 /\ uds_payload' = <<>> /\ missing_ids' = {}
             /\ UNCHANGED exc
        ELSE /\ mpc' = "failed"
             /\ exc' = r
             /\ UNCHANGED monloc
    /\ UNCHANGED <<client, m_ops, thr, moncfg, delay, slept, metrics, lastpass, queue, worker, pcode>>

\* lines 476-478 and 486-488: record_bus_error(), the error record, time.sleep(delay)
Backoff ==
    /\ mpc = "failed"
    /\ exc # "KeyboardInterrupt"
    /\ Len(slept) < MaxFails
    /\ metrics' = [metrics EXCEPT !.bus_errors = @ + 1]
    /\ slept' = Append(slept, delay)
    /\ mpc' = "sleeping"
    /\ UNCHANGED <<client, m_ops, thr, moncfg, exc, delay, monloc, lastpass, queue, worker, pcode>>

\* lines 482-484: KeyboardInterrupt ends the loop and main returns 0
MainInterrupted ==
    /\ mpc = "failed"
    /\ exc = "KeyboardInterrupt"
    /\ mpc' = "stopped"
    /\ UNCHANGED <<client, m_ops, thr, moncfg, exc, delay, slept, metrics, monloc, lastpass, queue,
                   worker, pcode>>

\* the interrupt arrives during time.sleep(delay) of line 478 or 488, inside the
\* except clause: no clause of the try statement catches it and it leaves main
SleepInterrupted ==
    /\ mpc = "sleeping"
    /\ mpc' = "raised"
    /\ exc' = "KeyboardInterrupt"
    /\ UNCHANGED <<client, m_ops, thr, moncfg, delay, slept, metrics, monloc, lastpass, queue,
                   worker, pcode>>

\* line 479: the delay after the sleep
NextDelayMutNoCap(dl) == dl * 2
NextDelay(dl) == Min(dl * 2, 30)

\* lines 479-481 and 489-491: the next delay, record_restart(), setup_interface(...)
Restart ==
    /\ mpc = "sleeping"
    /\ delay' = NextDelay(delay)
    /\ metrics' = [metrics EXCEPT !.restarts = @ + 1]
    /\ mpc' = "open"
    /\ exc' = "none"
    /\ UNCHANGED <<client, m_ops, thr, moncfg, slept, monloc, lastpass, queue, worker, pcode>>

(***************************************************************************)
(* The worker thread of lines 253-263 and Transport.send, lines 17-27.      *)
(***************************************************************************)
Try(ok, n) == [ev |-> "send_once", ok |-> ok, n |-> n]
Sleep(n) == [ev |-> "sleep", ok |-> TRUE, n |-> n]

\* queue.Queue.get: the record taken and the records left
QueueGetMutLifo(q) == [item |-> q[Len(q)], rest |-> SubSeq(q, 1, Len(q) - 1)]
QueueGet(q) == [item |-> Head(q), rest |-> Tail(q)]

\* send_queue.get() returns and transport.send(payload) is entered
WorkerGet ==
    /\ wpc = "get"
    /\ send_queue # <<>>
    /\ t_payload' = QueueGet(send_queue).item
    /\ send_queue' = QueueGet(send_queue).rest
    /\ delivered' = Append(delivered, QueueGet(send_queue).item)
    /\ attempts' = 0 /\ t_trace' = <<>> /\ t_result' = "none" /\ w_logged' = <<>>
    /\ wpc' = "send_once"
    /\ UNCHANGED <<client, m_ops, thr, moncfg, mainloc, metrics, monloc, lastpass, unfinished,
                   enqueued, pcode>>

\* line 25: the attempt was the last one
LastAttemptMutOneMore(n) == n > retries
LastAttempt(n) == n >= retries

\* lines 20-26: one _send_once call, which returns or raises
SendOnce ==
    /\ wpc = "send_once"
    /\ \E ok \in BOOLEAN :
        /\ t_trace' = Append(t_trace, Try(ok, attempts + 1))
        /\ IF ok
           THEN /\ t_result' = "ok"
                /\ wpc' = "finally"
                /\ UNCHANGED attempts
           ELSE /\ attempts' = attempts + 1
                /\ IF LastAttempt(attempts + 1)
                   THEN t_result' = "raised" /\ wpc' = "finally"
                   ELSE t_result' = "none" /\ wpc' = "sleep"
    /\ UNCHANGED <<client, m_ops, thr, moncfg, mainloc, metrics, monloc, lastpass, queue, t_payload,
                   w_logged, pcode>>

\* line 27: time.sleep(self.delay)
SendSleep ==
    /\ wpc = "sleep"
    /\ t_trace' = Append(t_trace, Sleep(attempts))
    /\ wpc' = "send_once"
    /\ UNCHANGED <<client, m_ops, thr, moncfg, mainloc, metrics, monloc, lastpass, queue, t_payload,
                   attempts, t_result, w_logged, pcode>>

\* lines 258-259: "except Exception" logs what transport.send raised
WorkerLog(result) ==
    IF result = "raised" THEN <<Log("error", <<"Transport error">>)>> ELSE <<>>

\* lines 260-261: the finally clause calls send_queue.task_done() however
\* transport.send ended
TaskDoneMutNotFinally(n, result) == IF result = "raised" THEN n ELSE n - 1
TaskDone(n, result) == n - 1

\* lines 258-261: the exception, if any, is caught and logged; task_done();
\* the loop goes back to send_queue.get()
WorkerDone ==
    /\ wpc = "finally"
    /\ w_logged' = WorkerLog(t_result)
    /\ unfinished' = TaskDone(unfinished, t_result)
    /\ wpc' = "get"
    /\ UNCHANGED <<client, m_ops, thr, moncfg, mainloc, metrics, monloc, lastpass, send_queue, enqueued,
                   delivered, t_payload, attempts, t_trace, t_result, pcode>>

\* queue.Queue.join returns when every record put has had its task_done
JoinReturnsMutEmpty == send_queue = <<>>
JoinReturns == unfinished = 0

\* lines 384-386: send_queue.join() returns and the exception leaves monitor
MonitorJoin ==
    /\ mpc = "joining"
    /\ JoinReturns
    /\ mpc' = "failed"
    /\ UNCHANGED <<client, m_ops, thr, moncfg, exc, delay, slept, metrics, monloc, lastpass, queue,
                   worker, pcode>>

(***************************************************************************)
(* _convert_to_pcode called on the code bytes of two DTC records.           *)
(***************************************************************************)
CodeBytes0 == {0, 5, 32, 63, 64, 128, 192, 255}
CodeBytes1 == {0, 1, 141, 249, 255}

ConvertToPcode ==
    /\ \E b0 \in CodeBytes0, b1 \in CodeBytes1, b2 \in {0, 255} :
        /\ code_in' = IF Len(code_in) < 2 THEN Append(code_in, <<b0, b1, b2>>)
                      ELSE <<code_in[2], <<b0, b1, b2>>>>
        /\ code_out' = IF Len(code_out) < 2
                       THEN Append(code_out, convert_to_pcode(<<b0, b1, b2>>))
                       ELSE <<code_out[2], convert_to_pcode(<<b0, b1, b2>>)>>
    /\ UNCHANGED <<client, m_ops, thr, moncfg, mainloc, metrics, monloc, lastpass, queue, worker>>

(***************************************************************************)
(* The specifications of the monitor: monitor called on an open bus; main   *)
(* with monitor inside it (main gives monitor no transport); monitor called *)
(* with a serializer and a transport; the DTC code conversion.              *)
(***************************************************************************)
ClientIdle == ClientInit({None}, {0}, {"default"}, {None}, "ecu")

InitMon ==
    /\ ClientIdle
    /\ MonitorInit({"db", "both", "fallback", "none"}, {"off", "full", "listen"}, {FALSE, TRUE},
                   {"none"}, {1}, "running")
NextMon == MonitorStep \/ MonitorRecvFails
SpecMon == InitMon /\ [][NextMon]_vars

InitMain ==
    /\ ClientIdle
    /\ MonitorInit({"db"}, {"off"}, {FALSE}, {"none"}, {1}, "open")
NextMain ==
    \/ MainOpen \/ MonitorStep \/ MonitorRecvFails \/ Backoff \/ Restart \/ MainInterrupted
    \/ SleepInterrupted
SpecMain == InitMain /\ [][NextMain]_vars

InitQueue ==
    /\ ClientIdle
    /\ MonitorInit({"db"}, {"off"}, {FALSE}, {"json", "xml"}, 1..MaxRetries,
                   "running")
NextQueue ==
    \/ MonitorStep \/ MonitorRecvFails \/ MonitorJoin
    \/ WorkerGet \/ SendOnce \/ SendSleep \/ WorkerDone
SpecQueue == InitQueue /\ [][NextQueue]_vars

InitDtc ==
    /\ ClientIdle
    /\ MonitorInit({"none"}, {"off"}, {FALSE}, {"none"}, {1}, "off")
NextDtc == ConvertToPcode
SpecDtc == InitDtc /\ [][NextDtc]_vars

(***************************************************************************)
(* C11: every First Frame the monitor receives on the configured response   *)
(* identifier makes it send exactly one flow-control frame                  *)
(* [0x30, block_size, st_min, 0, 0, 0, 0, 0] to the configured request      *)
(* identifier, and it sends nothing for any other frame (Single Frames and  *)
(* Consecutive Frames included).                                            *)
(***************************************************************************)
\* the frame of the last pass is a First Frame on the response identifier
MonGotFF ==
    /\ uds_mode # "off" /\ msg.id = ecu_resp_id
    /\ Len(msg.data) >= 2 /\ msg.data[1] \div 16 = 1

C11_MonitorFlowControl ==
    /\ (MonGotFF /\ uds_mode = "full") =>
        \/ busSent = <<Frame(REQ_ID, <<48, flow_block % 256, flow_st % 256, 0, 0, 0, 0, 0>>)>>
        \* bus.send raised: the error ends the loop
        \/ busSent = <<>> /\ exc = "CanError" /\ mpc # "running"
    /\ ~(MonGotFF /\ uds_mode = "full") => busSent = <<>>

C11_Witness ==
    /\ uds_mode = "full" /\ mpc = "running"
    /\ msg = Frame(RESP_ID, <<16, 11, 89, 2, 2, 32, 249, 0>>)
    /\ busSent = <<Frame(REQ_ID, <<48, 2, 20, 0, 0, 0, 0, 0>>)>>
    /\ uds_expected = 5

(***************************************************************************)
(* C12: for a reassembled payload that begins 0x59 0x02 the decoder reports *)
(* one entry for every complete 4-byte record up to the count payload[2]; a *)
(* code not in the table is reported with severity UNKNOWN and no alert;    *)
(* the ALERT record is written for a code exactly when its table entry has  *)
(* alert set or severity CRITICAL.                                          *)
(***************************************************************************)
IsDtcLog(l) == l.text[1] = "DTC"
IsAlertLog(l) == l.text[1] = "ALERT"
AlertsFor(code) == {j \in 1..Len(logged) : IsAlertLog(logged[j]) /\ logged[j].text[2] = code}
DtcPayload ==
    /\ dtc_payload # NotCalled /\ Len(dtc_payload) >= 3
    /\ dtc_payload[1] = 89 /\ dtc_payload[2] = 2

C12_DtcReport ==
    DtcPayload =>
        LET n == Min(dtc_payload[3], (Len(dtc_payload) - 3) \div 4)
            entries == SelectSeq(logged, IsDtcLog)
        IN  /\ Len(entries) = n
            /\ \A j \in 1..Len(logged) : IsDtcLog(logged[j]) \/ IsAlertLog(logged[j])
            /\ \A i \in 1..n :
                LET code == entries[i].text[2]
                    listed == code \in DOMAIN DtcTable
                    marked == /\ listed
                              /\ \/ Get(DtcTable[code], "alert", FALSE)
                                 \/ Get(DtcTable[code], "severity", "INFO")
                                        \in {"CRITICAL", "critical"}
                IN  /\ code = convert_to_pcode(SubSeq(dtc_payload, 4 * i, 4 * i + 2))
                    /\ ~listed => entries[i].text[5] = "UNKNOWN"
                    /\ entries[i].level = "info"
                    /\ marked <=> AlertsFor(code) # {}
            /\ \A j \in 1..Len(logged) :
                IsAlertLog(logged[j]) =>
                    /\ logged[j].level = "error"
                    /\ j > 1 /\ IsDtcLog(logged[j - 1])
                    /\ logged[j - 1].text[2] = logged[j].text[2]

\* three records in three frames: an unknown code, a listed code with the
\* alert flag, a listed code with neither
C12_Witness ==
    /\ dtc_payload = <<89, 2, 3, 193, 0, 0, 8, 128, 1, 0, 8, 255, 255, 0, 8>>
    /\ Len(logged) = 4
    /\ logged[1].text[2] = <<"U", "0", "1", "0", "0">> /\ logged[1].text[5] = "UNKNOWN"
    /\ IsAlertLog(logged[3]) /\ logged[3].text[2] = <<"B", "0", "0", "0", "1">>

(***************************************************************************)
(* C13: the canonical code of the code bytes (b0, b1) is the letter chosen  *)
(* by the top two bits of the 16-bit value (0 P, 1 C, 2 B, 3 U) and the     *)
(* other 14 bits as four upper-case hex digits: (0x20, 0xF9) gives P20F9,   *)
(* (0x05, 0x8D) gives P058D; different values give different codes.         *)
(***************************************************************************)
\* the number a hex digit stands for
HexVal(ch) == CHOOSE k \in 0..15 : HexDigits[k + 1] = ch
Value16(b) == b[1] * 256 + b[2]

C13_CanonicalCode ==
    /\ Len(code_out) = Len(code_in)
    /\ \A i \in 1..Len(code_in) :
        LET v == Value16(code_in[i])
            c == code_out[i]
        IN  /\ Len(c) = 5
            /\ c[1] = (CASE v \div 16384 = 0 -> "P" [] v \div 16384 = 1 -> "C"
                         [] v \div 16384 = 2 -> "B" [] v \div 16384 = 3 -> "U")
            /\ \A k \in 2..5 : c[k] \in {HexDigits[d] : d \in 1..16}
            /\ HexVal(c[2]) * 4096 + HexVal(c[3]) * 256 + HexVal(c[4]) * 16 + HexVal(c[5])
                    = v % 16384
            /\ (code_in[i][1] = 32 /\ code_in[i][2] = 249) => c = <<"P", "2", "0", "F", "9">>
            /\ (code_in[i][1] = 5 /\ code_in[i][2] = 141) => c = <<"P", "0", "5", "8", "D">>
    /\ \A i, j \in 1..Len(code_in) :
        Value16(code_in[i]) # Value16(code_in[j]) => code_out[i] # code_out[j]

C13_Witness ==
    /\ Len(code_in) = 2
    /\ code_in[1][1] = 32 /\ code_in[1][2] = 249
    /\ code_in[2][1] = 255 /\ code_in[2][2] = 249
    /\ code_out = <<<<"P", "2", "0", "F", "9">>, <<"U", "3", "F", "F", "9">>>>

(***************************************************************************)
(* C14: in main's reconnect loop the k-th failure in a row sleeps           *)
(* min(2^(k-1), 30) seconds (1, 2, 4, 8, 16, 30, 30, ...), the delay stays  *)
(* in 1..30, and every failure is followed by one backoff sleep and then    *)
(* one increment of restarts before the bus is opened again.                *)
(***************************************************************************)
C14_Backoff ==
    /\ \A k \in 1..Len(slept) : slept[k] = Min(2 ^ (k - 1), 30)
    /\ delay \in 1..30
    \* one sleep, then one increment, then the bus is opened
    /\ mpc = "sleeping" => Len(slept) = metrics.restarts + 1
    /\ mpc \in {"open", "running", "failed", "stopped"} => Len(slept) = metrics.restarts

C14_Witness ==
    /\ mpc = "open"
    /\ slept = <<1, 2, 4, 8, 16, 30, 30>>
    /\ metrics.restarts = 7
    /\ delay = 30

(***************************************************************************)
(* C15: whenever the bus state is BUS_OFF after recv returns, whatever recv *)
(* returned (nothing, a regular frame, a frame on the UDS response          *)
(* identifier), the monitor leaves its loop with a CAN error.               *)
(***************************************************************************)
C15_BusOffEndsLoop ==
    (bus_off /\ exc \notin {"IndexError", "ValueError", "CanError"}) =>
        (mpc # "running" /\ exc = "BusOff")

\* the pass that the check at line 380 does end
C15_Witness ==
    /\ bus_off /\ msg.id = KNOWN_ID /\ exc = "BusOff" /\ mpc = "failed"
    /\ metrics.bus_errors = 1

(***************************************************************************)
(* C16: a frame whose decoding fails (identifier unknown, or parse error)   *)
(* raises decoding_failures by exactly one, on the primary path and on the  *)
(* fallback path; a frame that is decoded leaves the counter unchanged.     *)
(***************************************************************************)
\* the step is a pass that takes a frame to the decoders
DecodingPass ==
    /\ recvs' = recvs + 1
    /\ msg' \in RegularFrames
    /\ db_mode # "none"

C16_OneFailurePerFrame ==
    [][DecodingPass =>
        metrics'.decoding_failures =
            metrics.decoding_failures + (IF decoded' = <<>> THEN 1 ELSE 0)]_vars

\* the primary path counts the malformed frame once
C16_Witness ==
    /\ db_mode = "db" /\ msg = Frame(KNOWN_ID, <<1>>)
    /\ decoded = <<>> /\ metrics.decoding_failures = 1 /\ recvs = 1

(***************************************************************************)
(* C17: the transport queue never holds more than its capacity (1000 in the *)
(* code, QueueCap here); a record that finds it full is dropped with a      *)
(* warning and the receive loop goes on to its next recv, also while the    *)
(* worker is inside transport.send.                                         *)
(***************************************************************************)
QueueFullWarning == Log("warning", <<"Transport queue full">>)
\* the step is a pass that serializes a frame while the queue is full
FullPass ==
    /\ recvs' = recvs + 1
    /\ msg' \in RegularFrames
    /\ serializer \in {"json", "csv"}
    /\ Len(send_queue) = QueueCap

C17_QueueBounded ==
    [][/\ Len(send_queue') <= QueueCap
       /\ FullPass =>
            /\ send_queue' = send_queue /\ enqueued' = enqueued
            /\ unfinished' = unfinished
            /\ \E j \in 1..Len(logged') : logged'[j] = QueueFullWarning
            /\ mpc' = "running" \/ (bus_off' /\ exc' = "BusOff")
       \* the loop is never held up by the worker
       /\ (mpc = "running" /\ recvs < MaxRecv) => ENABLED MonitorStep]_vars

\* the worker is inside its first send, the queue is full, the last frame
\* was dropped and the loop is at its next recv
C17_Witness ==
    /\ wpc = "send_once" /\ Len(delivered) = 1
    /\ Len(send_queue) = QueueCap
    /\ recvs = QueueCap + 2 /\ Len(enqueued) = QueueCap + 1
    /\ msg \in RegularFrames
    /\ \E j \in 1..Len(logged) : logged[j] = QueueFullWarning
    /\ mpc = "running"

(***************************************************************************)
(* C18: the worker hands records to transport.send in the order in which    *)
(* their frames came from recv, and each enqueued record exactly once.      *)
(***************************************************************************)
C18_FifoDelivery ==
    \* what was sent, then what still waits, is what was enqueued, in order
    /\ delivered \o send_queue = enqueued
    \* records are enqueued in the order of the recv calls
    /\ \A i, j \in 1..Len(enqueued) : i < j => enqueued[i].n < enqueued[j].n
    \* the record being sent is the last one taken
    /\ wpc # "get" => (delivered # <<>> /\ t_payload = delivered[Len(delivered)])
    /\ unfinished = Len(send_queue) + (IF wpc = "get" THEN 0 ELSE 1)

C18_Witness ==
    /\ Len(delivered) = 3 /\ delivered = enqueued
    /\ wpc = "send_once"
    /\ delivered[1].n = 1 /\ delivered[3].n = 4

(***************************************************************************)
(* C19: when the monitor loop has ended, by a CAN error, another exception  *)
(* or an interrupt, the exception leaves monitor only after every enqueued  *)
(* record has been passed to transport.send and that call has ended.        *)
(***************************************************************************)
C19_JoinBeforeExit ==
    mpc = "failed" =>
        /\ send_queue = <<>> /\ unfinished = 0
        /\ delivered = enqueued
        /\ wpc = "get"
        /\ enqueued # <<>> => t_result \in {"ok", "raised"}

\* the loop ended while two records were waiting and one was being sent
C19_Witness ==
    /\ mpc = "failed" /\ exc = "KeyboardInterrupt"
    /\ Len(enqueued) = QueueCap + 1 /\ delivered = enqueued
    /\ recvs = QueueCap + 2
    /\ t_result = "raised"

(***************************************************************************)
(* C20: Transport.send calls _send_once at most retries times, returns at   *)
(* the first attempt that succeeds, sleeps only between two attempts and    *)
(* never after the last, and raises after retries failures in a row.        *)
(***************************************************************************)
IsTry(e) == e.ev = "send_once"
C20_RetryLoop ==
    LET tries == SelectSeq(t_trace, IsTry)
        n == Len(t_trace)
    IN  /\ Len(tries) <= retries
        /\ \A i \in 1..Len(tries) : tries[i].n = i
        /\ \A i \in 1..n :
            \* a success is the last event of the call
            /\ (IsTry(t_trace[i]) /\ t_trace[i].ok) => (i = n /\ t_result = "ok")
            \* a sleep follows a failure and comes before the next attempt
            /\ ~IsTry(t_trace[i]) =>
                /\ i > 1 /\ IsTry(t_trace[i - 1]) /\ ~t_trace[i - 1].ok
                /\ IF i < n THEN IsTry(t_trace[i + 1]) ELSE wpc = "send_once"
            \* a failure is followed by a sleep unless it was the last attempt
            /\ (IsTry(t_trace[i]) /\ ~t_trace[i].ok) =>
                IF t_trace[i].n = retries
                THEN i = n /\ t_result = "raised"
                ELSE IF i < n THEN ~IsTry(t_trace[i + 1]) ELSE wpc = "sleep"
        /\ t_result = "ok" => (n > 0 /\ IsTry(t_trace[n]) /\ t_trace[n].ok)
        /\ t_result = "raised" =>
            /\ Len(tries) = retries
            /\ \A i \in 1..Len(tries) : ~tries[i].ok
            /\ n = 2 * retries - 1
        /\ t_result = "none" => wpc \in {"get", "send_once", "sleep"}

\* retries attempts fail with a sleep between each two, and send raises
C20_Witness ==
    /\ retries = MaxRetries /\ t_result = "raised"
    /\ Len(t_trace) = 2 * MaxRetries - 1
    /\ ~IsTry(t_trace[2]) /\ IsTry(t_trace[Len(t_trace)])
    /\ wpc = "finally"

(***************************************************************************)
(* The functions of src/src/metrics.py, called one after the other.         *)
(***************************************************************************)
\* calls of the metrics functions within one behaviour
MaxOps == 5

\* _metrics[name] += 1
IncrMutBusToo(m, name) == [m EXCEPT ![name] = @ + 1, !.bus_errors = m.bus_errors + 1]
Incr(m, name) == [m EXCEPT ![name] = @ + 1]

\* lines 39-51: record_bus_error, record_restart, record_decoding_failure
Record(fn, name) ==
    /\ Len(m_ops) < MaxOps
    /\ m_ops' = Append(m_ops, fn)
    /\ metrics' = Incr(metrics, name)
    /\ UNCHANGED <<client, thr, moncfg, mainloc, monloc, lastpass, queue, worker, pcode>>

RecordBusError == Record("record_bus_error", "bus_errors")
RecordRestart == Record("record_restart", "restarts")
RecordDecodingFailure == Record("record_decoding_failure", "decoding_failures")

\* lines 25-29: reset_metrics
ResetMetrics ==
    /\ Len(m_ops) < MaxOps
    /\ m_ops' = Append(m_ops, "reset_metrics")
    /\ metrics' = [k \in DOMAIN metrics |-> 0]
    /\ UNCHANGED <<client, thr, moncfg, mainloc, monloc, lastpass, queue, worker, pcode>>

InitMetrics ==
    /\ ClientIdle
    /\ MonitorInit({"none"}, {"off"}, {FALSE}, {"none"}, {1}, "off")
NextMetrics == RecordBusError \/ RecordRestart \/ RecordDecodingFailure \/ ResetMetrics
SpecMetrics == InitMetrics /\ [][NextMetrics]_vars

(***************************************************************************)
(* C21: each of record_bus_error, record_restart, record_decoding_failure   *)
(* raises its own counter by one and leaves the other two as they are; no   *)
(* counter decreases except by reset_metrics; reset_metrics sets all three  *)
(* to zero.                                                                 *)
(***************************************************************************)
RECURSIVE Tally(_, _)
\* the calls of fn in ops after the last reset_metrics
Tally(fn, ops) ==
    IF ops = <<>> \/ ops[Len(ops)] = "reset_metrics" THEN 0
    ELSE Tally(fn, SubSeq(ops, 1, Len(ops) - 1)) + (IF ops[Len(ops)] = fn THEN 1 ELSE 0)

C21_Counters ==
    [][/\ metrics'.bus_errors = Tally("record_bus_error", m_ops')
       /\ metrics'.restarts = Tally("record_restart", m_ops')
       /\ metrics'.decoding_failures = Tally("record_decoding_failure", m_ops')
       /\ Len(m_ops') = Len(m_ops) + 1 =>
            LET fn == m_ops'[Len(m_ops')]
                own == CASE fn = "record_bus_error" -> "bus_errors"
                         [] fn = "record_restart" -> "restarts"
                         [] fn = "record_decoding_failure" -> "decoding_failures"
                         [] OTHER -> "none"
            IN  IF fn = "reset_metrics"
                THEN \A k \in DOMAIN metrics' : metrics'[k] = 0
                ELSE /\ DOMAIN metrics' = DOMAIN metrics
                     /\ \A k \in DOMAIN metrics :
                            metrics'[k] = metrics[k] + (IF k = own THEN 1 ELSE 0)]_vars

\* every function called, the reset in between
C21_Witness ==
    /\ m_ops = <<"record_bus_error", "record_restart", "reset_metrics",
                 "record_decoding_failure", "record_restart">>
    /\ metrics = [bus_errors |-> 0, restarts |-> 1, decoding_failures |-> 1]

(***************************************************************************)
(* C22: a flow-control frame with status OVERFLOW that arrives while send   *)
(* waits for flow control (after the First Frame or between blocks) makes   *)
(* send fail with the flow-control-overflow error, and no Consecutive Frame *)
(* follows it; one with status WAIT makes send go on waiting, and no frame  *)
(* is sent.                                                                 *)
(***************************************************************************)
\* the step is a recv of one of send's flow-control waits; lastRx' is what it read
FcReadStep == pc \in {"fc_first", "fc_block"} /\ waited < Timeout
\* a flow-control frame to the client with flow status fs
IsFcStatus(f, fs) == Addressed(f) /\ Pci(f) = 48 + fs

C22_OverflowAndWait ==
    [][/\ (FcReadStep /\ IsFcStatus(lastRx', 2)) =>
            /\ pc' = "idle" /\ outcome' = "FlowControlOverflow"
            /\ sent' = sent
            /\ calls' = Append(calls, Hook("con", FALSE, "FlowControlOverflow", <<>>))
       /\ (FcReadStep /\ IsFcStatus(lastRx', 1)) =>
            /\ pc' = pc /\ outcome' = "none"
            /\ sent' = sent /\ txloc' = txloc /\ calls' = calls
       \* nothing was sent since the OVERFLOW frame was read
       /\ outcome' = "FlowControlOverflow" =>
            (IsFcStatus(lastRx', 2) /\ Len(sent') = rxAt')]_vars

\* OVERFLOW between two blocks: First Frame, one Consecutive Frame, the error
C22_Witness ==
    /\ op = "send" /\ pc = "idle" /\ outcome = "FlowControlOverflow"
    /\ IsFcStatus(lastRx, 2)
    /\ Len(sent) = 2 /\ PciType(sent[2]) = 2
    /\ Len(payload) > FirstLen + ChunkLen

(***************************************************************************)
(* C23: flow-control WAIT frames do not restart or extend the time send     *)
(* allows for a flow-control wait: without a CTS within the timeout,        *)
(* counted from the start of that wait, send fails, however many WAIT       *)
(* frames it read.                                                          *)
(***************************************************************************)
C23_WaitKeepsDeadline ==
    [][/\ pc' \in {"fc_first", "fc_block"} => waited' <= Timeout
       \* the clock of the wait goes on over every frame read
       /\ FcReadStep => (pc' = pc => waited' >= waited)
       /\ (FcReadStep /\ IsFcStatus(lastRx', 1)) => (pc' = pc /\ waited' >= waited)
       \* at the deadline the wait ends in the error
       /\ (pc \in {"fc_first", "fc_block"} /\ waited >= Timeout) =>
            /\ pc' = "idle"
            /\ outcome' = (IF pc = "fc_first" THEN "NoFlowControl" ELSE "FlowControlTimeout")
            /\ sent' = sent]_vars

\* the wait failed although the last frame read was a WAIT
C23_Witness ==
    /\ op = "send" /\ pc = "idle" /\ outcome = "FlowControlTimeout"
    /\ IsFcStatus(lastRx, 1)
    /\ waited = Timeout

(***************************************************************************)
(* C24: all flow-control waits of one send call share the deadline fixed    *)
(* when the call began: a send with timeout T never waits longer than T in  *)
(* total for flow-control frames.                                           *)
(***************************************************************************)
C24_AbsoluteDeadline == op = "send" => elapsed <= Timeout

(***************************************************************************)
(* C25: request gives receive the part of the deadline that is left after   *)
(* send: a request never lasts longer than its timeout in total.            *)
(***************************************************************************)
C25_RequestDeadline == (op = "request" /\ pc = "recv") => elapsed <= Timeout

(***************************************************************************)
(* receive under fair scheduling: the loop goes on, and time passes (a recv *)
(* that returns nothing has waited for what remained of the timeout).       *)
(***************************************************************************)
\* a pass of receive's loop during which the clock advances
RecvTick == RecvStep /\ waited' > waited
\* the peer is an ECU among other nodes: frames of other identifiers and other
\* address extensions, Single Frames, First Frames (repeated), Consecutive
\* Frames at any time
InitRecvFair == InitWith({None, AE}, 0..2, {"default"}, {None}, "ecu")
SpecRecvFair ==
    InitRecvFair /\ [][NextRecv]_vars
        /\ WF_vars(RecvEntry) /\ WF_vars(RecvStep) /\ WF_vars(RecvTick)

Assembling == pc = "recv" /\ state_expected > 0 /\ state_payload # <<>>

C27_FreshFrameAborts ==
    [][/\ (Assembling /\ RecvOf(1) /\ Len(lastRx'.data) >= Hdr + 2) =>
            /\ state_payload' = From(lastRx'.data, Hdr + 2)
            /\ state_expected' =
                  PciLow(lastRx') * 256 + lastRx'.data[Hdr + 2] - Len(state_payload')
            /\ state_next_seq' = 1
            /\ ret' = <<>>
       /\ (Assembling /\ RecvOf(0)) =>
            /\ pc' = "idle" /\ outcome' = "ok"
            /\ ret' = Slice(lastRx'.data, Hdr + 1, Hdr + 1 + PciLow(lastRx'))
            /\ calls' = Append(calls, Hook("ind", TRUE, "", ret'))
       \* the peer's first message has bytes below 0x80 only, its later ones
       \* bytes from 0x80 only: a message completed after a restart has none
       \* of the first
       /\ (pc = "recv" /\ outcome' = "ok" /\ ffCount' >= 2 /\ RecvOf(2)) =>
            /\ ret' # <<>>
            /\ \A i \in 1..Len(ret') : ret'[i] >= 128]_vars

\* a second First Frame arrived while the first message was being assembled,
\* and its message was completed
C27_Witness ==
    /\ CompletedByCF /\ ffCount = 2
    /\ declared = MaxTotal /\ Len(ret) = MaxTotal
    /\ ret = Msg(1, MaxTotal)
    /\ Len(sent) = 2

(***************************************************************************)
(* C28: receive sends one flow-control frame for each First Frame and, with *)
(* rx_block_size > 0, one more after every rx_block_size Consecutive Frames *)
(* it accepted that do not complete the message; none after the             *)
(* Consecutive Frame that completes the message and, with rx_block_size 0,  *)
(* none after the first; each carries rx_block_size and rx_st_min and goes  *)
(* to the request identifier.                                               *)
(***************************************************************************)
\* the Consecutive Frames accepted since the First Frame, modulo 16
AcceptedCFs == (state_next_seq' + 15) % 16
\* the step accepts a Consecutive Frame that leaves bytes expected
BlockCF ==
    /\ RecvOf(2) /\ state_expected > 0 /\ PciLow(lastRx') = state_next_seq
    /\ state_expected' > 0
    /\ rx_block_size > 0 /\ AcceptedCFs % rx_block_size = 0
RxFc ==
    Frame(REQ_ID, IF address_extension = None
                  THEN <<48, rx_block_size, rx_st_min, 0, 0, 0, 0, 0>>
                  ELSE <<address_extension, 48, rx_block_size, rx_st_min, 0, 0, 0, 0>>)

C28_ReceiveFlowControl ==
    [][pc = "recv" =>
        /\ sent' = sent \/ sent' = Append(sent, RxFc)
        /\ sent' # sent => ((RecvOf(1) /\ Len(lastRx'.data) >= Hdr + 2) \/ BlockCF)
        \* bus.send may raise: the error ends receive
        /\ ((RecvOf(1) /\ Len(lastRx'.data) >= Hdr + 2) \/ BlockCF) =>
                (sent' # sent \/ (pc' = "idle" /\ outcome' = "IOError"))
        /\ outcome' = "ok" => sent' = sent]_vars

\* a long message with rx_block_size 2: a flow-control frame for the First
\* Frame and one after every second of the 16 Consecutive Frames before the last
C28_Witness ==
    /\ CompletedByCF /\ rx_block_size = 2 /\ address_extension = None
    /\ declared = LongTotal /\ Len(ret) = LongTotal
    /\ Len(sent) = 9
    /\ \A i \in 1..Len(sent) : sent[i] = Frame(REQ_ID, <<48, 2, 5, 0, 0, 0, 0, 0>>)

(***************************************************************************)
(* C29: every call of send fires the con hook exactly once: con(True, None) *)
(* after the last frame was sent when the call succeeds, con(False, err)    *)
(* when it fails, for whatever reason (no flow control, overflow, timeout,  *)
(* I/O error); the error then leaves the caller too: inside request,        *)
(* receive is not started and neither som_ind nor ind is called.            *)
(***************************************************************************)
\* send is running, at one of its waits or in its Consecutive Frame loop
InSend == pc \in {"fc_first", "fc_block", "cf_loop", "cf_emit"}
\* the step enters send: a call begins, or security_access makes its second request
EntersSend == pc = "idle" \/ (pc = "sa_seed" /\ stage' = 2)
IsCon(h) == h.h = "con"
ConCount(log) == Len(SelectSeq(log, IsCon))

C29_ConOnce ==
    [][/\ InSend =>
            \* send goes on: no hook
            /\ pc' \in {"fc_first", "fc_block", "cf_loop", "cf_emit"} => calls' = calls
            \* send returns: the last frame went out in this step, then con(True, None)
            /\ pc' = "recv_entry" =>
                /\ calls' = Append(calls, Hook("con", TRUE, "", <<>>))
                /\ Len(sent') = Len(sent) + 1
            \* send raises: con(False, err), and the call is over
            /\ pc' = "idle" =>
                /\ outcome' \notin {"ok", "none"}
                /\ calls' = Append(calls, Hook("con", FALSE, outcome', <<>>))
                /\ sent' = sent /\ ret' = ret
       /\ EntersSend =>
            LET n == Len(calls') - 1
            IN  /\ pc' \in {"fc_first", "fc_block", "cf_loop", "cf_emit"} =>
                    (ConCount(calls') = (IF pc = "idle" THEN 0 ELSE ConCount(calls)))
                /\ pc' = "recv_entry" =>
                    /\ calls'[n + 1] = Hook("con", TRUE, "", <<>>)
                    /\ Len(sent') = Len(sent) + 1 \/ pc = "idle"
                /\ (pc' = "idle" /\ outcome' # "ok") =>
                    /\ calls'[n + 1] = Hook("con", FALSE, outcome', <<>>)
                    /\ calls'[n].h = "req"
       \* con is called by no other step
       /\ ~(InSend \/ EntersSend) => ConCount(calls') = ConCount(calls)
       \* a request whose send failed: req and con were called, nothing else
       /\ (op' = "request" /\ pc' = "idle" /\ calls' # <<>>
                /\ calls'[Len(calls')].h = "con" /\ ~calls'[Len(calls')].ok) =>
            /\ calls' = <<Hook("req", TRUE, "", payload'),
                          Hook("con", FALSE, outcome', <<>>)>>
            /\ ret' = <<>>]_vars

\* a request of three frames whose second flow-control wait timed out
C29_Witness ==
    /\ op = "request" /\ pc = "idle" /\ outcome = "FlowControlTimeout"
    /\ calls = <<Hook("req", TRUE, "", payload),
                 Hook("con", FALSE, "FlowControlTimeout", <<>>)>>
    /\ Len(sent) = 2

(***************************************************************************)
(* C30: security_access(level) transmits the key request only after a seed  *)
(* reply that starts with 0x67, level*2-1; after any other seed reply it    *)
(* returns False and transmits no key; it returns True only when the key    *)
(* reply starts with 0x67, level*2.                                         *)
(***************************************************************************)
C30_SeedReplyChecked ==
    [][/\ (pc = "sa_seed" /\ Len(sent') > Len(sent)) =>
            (Len(ret) >= 2 /\ ret[1] = 103 /\ ret[2] = level * 2 - 1)
       /\ (pc = "sa_seed" /\ ~(Len(ret) >= 2 /\ ret[1] = 103 /\ ret[2] = level * 2 - 1)) =>
            (pc' = "idle" /\ ~granted' /\ sent' = sent)
       /\ granted' => (stage' = 2 /\ Len(ret') >= 2 /\ ret'[1] = 103
                            /\ ret'[2] = level' * 2)]_vars

(***************************************************************************)
(* C31: the passive reassembler checks the sequence number of a Consecutive *)
(* Frame as receive does: a Consecutive Frame that does not carry the       *)
(* expected number (1 after the First Frame) is not appended to the buffer  *)
(* and no DTC payload comes from that message.                              *)
(***************************************************************************)
\* the monitor is in its loop with a message partly reassembled
MonAssembling == mpc = "running" /\ uds_mode # "off" /\ uds_expected > 0
\* a frame on the response identifier with PCI type t
IsMonPci(f, t) == f.id = RESP_ID /\ Len(f.data) >= 1 /\ f.data[1] \div 16 = t

C31_MonitorSequenceCheck ==
    [][(/\ MonAssembling /\ MonGotFF
        /\ recvs' = recvs + 1
        /\ IsMonPci(msg', 2) /\ msg'.data[1] % 16 # 1)
            => (/\ dtc_payload' = NotCalled
                /\ Len(uds_payload') <= Len(uds_payload))]_vars

(***************************************************************************)
(* C32: in the passive reassembler a Single Frame or a First Frame on the   *)
(* response identifier ends the reassembly in progress: after a Single      *)
(* Frame nothing is buffered or expected, after a First Frame the buffer    *)
(* holds the bytes of that First Frame only.                                *)
(***************************************************************************)
C32_MonitorFreshFrameAborts ==
    (mpc = "running" /\ uds_mode # "off") =>
        /\ IsMonPci(msg, 0) => (uds_expected = 0 /\ uds_payload = <<>>)
        /\ MonGotFF => uds_payload = From(msg.data, 2)

(***************************************************************************)
(* C33: a frame on the configured response identifier goes to the passive   *)
(* reassembler only, whatever its PCI type: it is not decoded against a     *)
(* database, not logged as a regular frame, counted as no decoding failure  *)
(* and not put on the transport queue.                                      *)
(***************************************************************************)
C33_ResponseIdOnlyReassembled ==
    [][(/\ mpc = "running" /\ uds_mode # "off"
        /\ recvs' = recvs + 1
        /\ msg'.id = RESP_ID)
            => (/\ decoded' = <<>>
                /\ metrics'.decoding_failures = metrics.decoding_failures
                /\ \A i \in 1..Len(logged') : logged'[i].text[1] \in {"DTC", "ALERT"}
                /\ enqueued' = enqueued)]_vars

(***************************************************************************)
(* send called with payloads around the largest length a First Frame can    *)
(* declare, up to the answer to its First Frame.                            *)
(***************************************************************************)
\* len(payload): multi-frame lengths, and lengths on both sides of 2^12
FFLens == 8..40 \cup {4094, 4095, 4096, 4097, 4352}

\* client.send(service, data, Timeout) with len(data) + 1 in FFLens
SendLongCall ==
    /\ pc = "idle"
    /\ \E service \in Services, n \in FFLens :
        SendEntry("send", <<service>> \o Range(n - 1), <<>>, <<>>)
    /\ op' = "send"
    /\ ret' = <<>> /\ granted' = FALSE
    /\ lastRx' = NoFrame /\ rxAt' = 0
    /\ UNCHANGED <<mon, cfg, paused, rxst, sa, peer>>

InitFirstFrame == InitWith({None, AE}, {0}, {"default"}, {None}, "ecu")
NextFirstFrame == SendLongCall \/ FcWaitFirst
SpecFirstFrame == InitFirstFrame /\ [][NextFirstFrame]_vars

(***************************************************************************)
(* C39: the First Frame send transmits declares, in the 12 bits after the   *)
(* frame type, the length of the payload (service byte and data), and send  *)
(* transmits no First Frame for a payload longer than 4095 bytes.           *)
(***************************************************************************)
\* the length a First Frame declares
DeclaredLength(f) == (f.data[Hdr + 1] % 16) * 256 + f.data[Hdr + 2]

C39_FirstFrameLength ==
    (op = "send" /\ pc = "fc_first" /\ Len(sent) = 1) =>
        /\ PciType(sent[1]) = 1
        /\ DeclaredLength(sent[1]) = Len(payload)
        /\ Len(payload) <= 4095

(***************************************************************************)
(* C34: once the bus is open and the receive loop has started, the backoff  *)
(* delay is 1 s again, so the first failure after that sleeps 1 s however   *)
(* many failures came before.                                               *)
(***************************************************************************)
C34_DelayResetWhenRunning == mpc = "running" => delay = 1

(***************************************************************************)
(* C38: a user interrupt in any state of main's reconnect loop (opening the *)
(* bus, in the receive loop, sleeping before the restart) ends main with    *)
(* return code 0: the interrupt never leaves main as an exception.          *)
(***************************************************************************)
C38_InterruptReturnsZero ==
    exc = "KeyboardInterrupt" => mpc \in {"joining", "failed", "stopped"}

(***************************************************************************)
(* C40: one bus-off found by monitor raises bus_errors by one by the time   *)
(* main has slept, counted the restart and set the interface up again:      *)
(* after the first restart, caused by a bus-off, bus_errors = restarts = 1. *)
(***************************************************************************)
C40_BusOffCountedOnce ==
    (mpc = "open" /\ Len(slept) = 1 /\ bus_off) =>
        (metrics.bus_errors = 1 /\ metrics.restarts = 1)

(***************************************************************************)
(* C35: when the primary database has no message for a frame's identifier   *)
(* and fallback databases are configured, the frame is decoded by the first *)
(* fallback database that knows it; when none does, the identifier is       *)
(* reported at info level the first time and at debug level afterwards.     *)
(***************************************************************************)
\* the step is a pass on a frame the primary database raises KeyError for,
\* fallback databases being configured too
PrimaryMiss ==
    /\ mpc = "running" /\ db_mode = "both"
    /\ recvs' = recvs + 1
    /\ msg' \in RegularFrames
    /\ decode_message(PrimaryDb, msg') = "KeyError"

C35_FallbackAfterPrimaryMiss ==
    [][PrimaryMiss =>
        /\ decoded' = FallbackLoop(1, msg').decoded
        /\ decoded' = <<>> =>
            /\ NoEntryLog(msg') \in {logged'[i] : i \in 1..Len(logged')}
            /\ msg'.id \in missing_ids']_vars

(***************************************************************************)
(* C36: an exception transport.send raises when its retries are used up is  *)
(* caught and logged by the worker: the receive loop is not left because of *)
(* it, the worker goes back to the queue for the next record, the record    *)
(* counts as done, and the join at the end of monitor returns once the      *)
(* worker has been through the queue.                                       *)
(***************************************************************************)
\* the worker leaves a transport.send call that raised
AfterRaise == wpc = "finally" /\ t_result = "raised" /\ wpc' # wpc

C36_TransportErrorContained ==
    /\ [][/\ (wpc = "send_once" /\ t_result' = "raised") =>
                (wpc' = "finally" /\ UNCHANGED <<mpc, exc, lastpass, queue>>)
          /\ AfterRaise =>
                /\ UNCHANGED <<mpc, exc, lastpass>>
                /\ w_logged' = <<Log("error", <<"Transport error">>)>>
                /\ unfinished' = unfinished - 1
                /\ UNCHANGED <<send_queue, enqueued, delivered>>
                \* back at send_queue.get()
                /\ wpc' = "get"]_vars
    \* the worker has nothing left to do: join returns
    /\ []((mpc = "joining" /\ wpc = "get" /\ send_queue = <<>>) => JoinReturns)

\* a record's send has raised while the loop runs and the next record waits
C36_Witness ==
    /\ mpc = "running" /\ wpc = "get" /\ t_result = "raised"
    /\ w_logged = <<Log("error", <<"Transport error">>)>>
    /\ send_queue # <<>> /\ unfinished = Len(send_queue)
    /\ Len(delivered) = 1

(***************************************************************************)
(* The record functions of metrics.py called from several threads.  The     *)
(* statement _metrics[name] += 1 of lines 40, 45 and 50 reads the counter,  *)
(* adds one and stores the sum; metrics.py holds no lock, so another thread *)
(* can run between the read and the store.                                  *)
(***************************************************************************)
\* the record function that updates a counter
RecordFn(name) ==
    IF name = "bus_errors" THEN "record_bus_error"
    ELSE IF name = "restarts" THEN "record_restart"
    ELSE "record_decoding_failure"

\* thread t enters a record function and reads the counter
ThreadLoad(t) ==
    /\ thr[t].pc = "idle"
    /\ Len(m_ops) < MaxOps
    /\ \E name \in DOMAIN metrics :
        /\ thr' = [thr EXCEPT ![t] = [pc |-> name, val |-> metrics[name]]]
        /\ m_ops' = Append(m_ops, RecordFn(name))
    /\ UNCHANGED <<client, moncfg, mainloc, metrics, monloc, lastpass, queue, worker, pcode>>

\* thread t stores the value it read plus one and leaves the function
ThreadStore(t) ==
    /\ thr[t].pc # "idle"
    /\ metrics' = [metrics EXCEPT ![thr[t].pc] = thr[t].val + 1]
    /\ thr' = [thr EXCEPT ![t] = Idle]
    /\ UNCHANGED <<client, m_ops, moncfg, mainloc, monloc, lastpass, queue, worker, pcode>>

InitRace ==
    /\ ClientIdle
    /\ MonitorInit({"none"}, {"off"}, {FALSE}, {"none"}, {1}, "off")
NextRace == \E t \in Threads : ThreadLoad(t) \/ ThreadStore(t)
SpecRace == InitRace /\ [][NextRace]_vars

(***************************************************************************)
(* C37: no increment is lost when the record functions run on different     *)
(* threads: when every call has returned (and there was no reset), each     *)
(* counter equals the number of calls of its record function.               *)
(***************************************************************************)
C37_NoLostIncrement ==
    (\A t \in Threads : thr[t].pc = "idle") =>
        /\ metrics.bus_errors = Tally("record_bus_error", m_ops)
        /\ metrics.restarts = Tally("record_restart", m_ops)
        /\ metrics.decoding_failures = Tally("record_decoding_failure", m_ops)
=============================================================================
